---- MODULE Spec2Model ----
(***************************************************************************)
(* Toolify: a reverse proxy that retrofits function calling onto chat      *)
(* completion upstreams.  The module models                                *)
(*   - the tool-call ID map (ToolCallMappingManager),                      *)
(*   - the streaming detector and the streaming proxy around it,           *)
(*   - the unary XML parser and the assistant tool-call formatter,         *)
(*   - the message rewriter and the unary failover loop.                   *)
(* Texts are TLA+ strings; positions are 0-based as in the Python source.  *)
(***************************************************************************)
EXTENDS Integers, Sequences, FiniteSets, TLC

VARIABLES
    \* ---- ToolCallMappingManager (src/main.py:224-355)
    data,          \* _data: the OrderedDict, as a sequence of [id, rec], oldest first
    timestamps,    \* _timestamps: id -> time of the store
    now,           \* time.time()
    map_op,        \* the last map operation, what it returned, and whether a store
                   \* found its id in the map (over)
    \* ---- history of the map, kept for the properties only
    h_store,       \* id -> [at, rec] of the most recent store of id, or NoRec
    h_evicted,     \* ids removed by the size limit since their most recent store
    h_touch,       \* ids by recency of touch (store or successful get), latest last
    h_expiry,      \* TRUE once an entry was deleted because it had expired
    \* ---- one streaming request (stream_proxy_with_fc_transform and its caller)
    upstream_tokens, \* the pieces the upstream's whole reply is made of
    upstream_text,   \* the upstream's whole reply
    upstream_pos,    \* how many characters of it have arrived as deltas
    detector,        \* the StreamingFunctionCallDetector of the request
    proxy_pc,        \* "idle", "streaming" or "returned"
    client,          \* the chunks the client has received, in order
    stream_aborted,  \* TRUE when the response generator raised
    last_ret,        \* the tool_detected flag the last process_chunk call returned
    fault,           \* how the upstream's stream failed and where it was caught, or None
    \* ---- one unary request (chat_completions, stream false) and later messages
    upstreams,         \* what each candidate upstream answers, in priority order
    upstream_idx,      \* the loop variable of the failover loop
    contacted,         \* the upstreams posted to so far, in order
    response,          \* the response returned to the client, or None
    has_function_call, \* function calling is on and the request has tools
    req_pc,            \* "idle", "unary" or "returned"
    processed,         \* what preprocess_messages made of the last message given
    dispatched,        \* what the request saw at dispatch: config, signal, services
    posted,            \* what each post to an upstream was sent with, in order
    \* ---- a pure function under check
    fn_pc,           \* "idle", "given", "formatted", "parsed" or "raised"
    fn_in,           \* its input
    fn_text,         \* the text in between, where there is one
    fn_out,          \* its result
    \* ---- the configuration and the globals load_runtime_config derives from it
    app_config,               \* the active AppConfig
    config_file,              \* what config.yaml holds
    MODEL_TO_SERVICE_MAPPING, \* model entry -> services, by priority
    ALIAS_MAPPING,            \* alias -> the entries "alias:model"
    DEFAULT_SERVICE,          \* the service used for unknown models
    ALLOWED_CLIENT_KEYS,      \* the keys clients may present
    GLOBAL_TRIGGER_SIGNAL,    \* the sentinel drawn at the last (re)load
    admin_reply,              \* what the last update_config call answered
    \* ---- the threads that use the map (src/main.py:250-355)
    lock,            \* _lock, the RLock: [owner, count]
    thread           \* thread -> where it is in its map operation, and its locals

mapvars == <<data, timestamps, now, map_op, h_store, h_evicted, h_touch, h_expiry>>
streamvars == <<upstream_tokens, upstream_text, upstream_pos, detector, proxy_pc,
                client, stream_aborted, last_ret, fault>>
reqvars == <<upstreams, upstream_idx, contacted, response, has_function_call,
             req_pc, processed, dispatched, posted>>
fnvars == <<fn_pc, fn_in, fn_text, fn_out>>
cfgvars == <<app_config, config_file, MODEL_TO_SERVICE_MAPPING, ALIAS_MAPPING,
             DEFAULT_SERVICE, ALLOWED_CLIENT_KEYS, GLOBAL_TRIGGER_SIGNAL, admin_reply>>
lockvars == <<lock, thread>>
vars == <<mapvars, streamvars, reqvars, fnvars, cfgvars, lockvars>>

(***************************************************************************)
(* Bounds of the model.                                                    *)
(***************************************************************************)
MaxSize == 2        \* max_size of the map under check (1000 in production)
TtlSeconds == 1     \* ttl_seconds of the map under check (3600 in production)
NumIds == 3         \* distinct tool_call ids in play
MaxTime == 3        \* the clock stops advancing here

Ids == 1..NumIds
Names == {"get_weather", "t"}
None == [none |-> TRUE]
NoRec == [none |-> TRUE]

\* The threads that call the map: the threads of the request handlers and
\* the cleanup thread the manager starts.
Handlers == {"h1", "h2"}
Threads == Handlers \cup {"sweeper"}

\* A thread: where it is (pc), the operation it is in with its argument and
\* locals (current_time, the keys to delete), whether the sweeper's last turn
\* ended in the except clause, and the map as it was when the lock was taken
\* (h, kept for the properties only).
IdleThread(th) ==
    [pc |-> IF th = "sweeper" THEN "sleep" ELSE "idle", op |-> "none", id |-> 0,
     current_time |-> 0, keys |-> {}, raised |-> FALSE, h |-> None]

(***************************************************************************)
(* Sequence helpers.                                                       *)
(***************************************************************************)
Range(s) == {s[i] : i \in DOMAIN s}
Keys(d) == {d[i].id : i \in DOMAIN d}
Without(d, id) == SelectSeq(d, LAMBDA e : e.id # id)
Lookup(d, id) == (CHOOSE i \in DOMAIN d : d[i].id = id)
RemoveId(s, id) == SelectSeq(s, LAMBDA x : x # id)
Restrict(f, S) == [x \in S |-> f[x]]

(***************************************************************************)
(* ToolCallMappingManager.store: drop an existing entry for the id, evict  *)
(* from the front while the map is full, append the new entry.             *)
(***************************************************************************)
RECURSIVE EvictWhileFull(_)
EvictWhileFull(d) ==
    IF Len(d) >= MaxSize THEN EvictWhileFull(Tail(d)) ELSE d

\* (the eviction before the existing entry is dropped)
StoreDataEvictFirst(d, id, rec) ==
    Append(Without(EvictWhileFull(d), id), [id |-> id, rec |-> rec])

StoreData(d, id, rec) ==
    Append(EvictWhileFull(Without(d, id)), [id |-> id, rec |-> rec])

\* The map and its history as one value, so that several stores compose.
TheMap ==
    [data |-> data, timestamps |-> timestamps, h_store |-> h_store,
     h_evicted |-> h_evicted, h_touch |-> h_touch]

StoreIn(m, id, name, args, t) ==
    LET rec == [name |-> name, args |-> args,
                description |-> "Calling tool " \o name, created_at |-> t]
        d2 == StoreData(m.data, id, rec)
        gone == (Keys(m.data) \ Keys(d2)) \ {id}
    IN  [data |-> d2,
         timestamps |-> [k \in Keys(d2) |-> IF k = id THEN t ELSE m.timestamps[k]],
         h_store |-> [m.h_store EXCEPT ![id] = [at |-> t, rec |-> rec]],
         h_evicted |-> (m.h_evicted \ {id}) \cup gone,
         h_touch |-> Append(RemoveId(m.h_touch, id), id)]

SetMap(m) ==
    /\ data' = m.data
    /\ timestamps' = m.timestamps
    /\ h_store' = m.h_store
    /\ h_evicted' = m.h_evicted
    /\ h_touch' = m.h_touch

store(id, name, args) ==
    /\ SetMap(StoreIn(TheMap, id, name, args, now))
    /\ map_op' = [op |-> "store", id |-> id, result |-> None, at |-> now,
                   over |-> id \in Keys(data)]
    /\ UNCHANGED <<now, h_expiry, reqvars, fnvars, cfgvars, lockvars>>

(***************************************************************************)
(* ToolCallMappingManager.get: absent when unknown; delete and absent when *)
(* expired; otherwise return the record and move it to the end.            *)
(***************************************************************************)
ExpiredAtTtl(ts, t) == t - ts >= TtlSeconds

Expired(ts, t) == t - ts > TtlSeconds

GetDataNoMove(d, id) == d

GetData(d, id) ==
    LET e == d[Lookup(d, id)] IN Append(Without(d, id), e)

\* (a get that renews the entry's timestamp)
GetTimestampsRenewed(ts, id, t) == [ts EXCEPT ![id] = t]

\* a successful get leaves _timestamps as it is
GetTimestamps(ts, id, t) == ts

get(id) ==
    IF id \notin Keys(data)
    THEN /\ map_op' = [op |-> "get", id |-> id, result |-> None, at |-> now, over |-> FALSE]
         /\ UNCHANGED <<data, timestamps, now, h_store, h_evicted, h_touch, h_expiry>>
    ELSE IF Expired(timestamps[id], now)
    THEN /\ data' = Without(data, id)
         /\ timestamps' = Restrict(timestamps, Keys(data) \ {id})
         /\ map_op' = [op |-> "get", id |-> id, result |-> None, at |-> now, over |-> FALSE]
         /\ h_expiry' = TRUE
         /\ UNCHANGED <<now, h_store, h_evicted, h_touch>>
    ELSE /\ data' = GetData(data, id)
         /\ map_op' = [op |-> "get", id |-> id, result |-> data[Lookup(data, id)].rec,
                      at |-> now, over |-> FALSE]
         /\ timestamps' = GetTimestamps(timestamps, id, now)
         /\ h_touch' = Append(RemoveId(h_touch, id), id)
         /\ UNCHANGED <<now, h_store, h_evicted, h_expiry>>

(***************************************************************************)
(* ToolCallMappingManager.cleanup_expired: delete every expired entry.     *)
(***************************************************************************)
ExpiredKeys == {k \in Keys(data) : Expired(timestamps[k], now)}

cleanup_expired ==
    /\ data' = SelectSeq(data, LAMBDA e : e.id \notin ExpiredKeys)
    /\ timestamps' = Restrict(timestamps, Keys(data) \ ExpiredKeys)
    /\ map_op' = [op |-> "cleanup", id |-> 0, result |-> Cardinality(ExpiredKeys),
                   at |-> now, over |-> FALSE]
    /\ h_expiry' = (h_expiry \/ ExpiredKeys # {})
    /\ UNCHANGED <<now, h_store, h_evicted, h_touch>>

(***************************************************************************)
(* The clock advances.                                                     *)
(***************************************************************************)
Tick ==
    /\ now < MaxTime
    /\ now' = now + 1
    /\ UNCHANGED <<data, timestamps, map_op, h_store, h_evicted, h_touch, h_expiry>>

(***************************************************************************)
(* Text helpers: Python's slicing, str.startswith, str.find, str.strip.    *)
(***************************************************************************)
Min2(a, b) == IF a <= b THEN a ELSE b
Max2(a, b) == IF a >= b THEN a ELSE b

\* s[i:j]
Slice(s, i, j) ==
    LET a == Max2(0, Min2(i, Len(s)))
        b == Max2(a, Min2(j, Len(s)))
    IN  SubSeq(s, a + 1, b)

\* s[i:]
From(s, i) == Slice(s, i, Len(s))

\* s[i]
CharAt(s, i) == SubSeq(s, i + 1, i + 1)

\* s[i:].startswith(p)
StartsWithAt(s, i, p) ==
    /\ i + Len(p) <= Len(s)
    /\ SubSeq(s, i + 1, i + Len(p)) = p

\* s.find(p, start)
Find(s, p, start) ==
    LET hits == {i \in start..(Len(s) - Len(p)) : StartsWithAt(s, i, p)}
    IN  IF hits = {} THEN -1 ELSE CHOOSE i \in hits : \A j \in hits : i <= j

Contains(s, p) == Find(s, p, 0) # -1

IsSpace(c) == c \in {" ", "\n", "\t", "\r"}

RECURSIVE LStrip(_)
LStrip(s) ==
    IF Len(s) > 0 /\ IsSpace(CharAt(s, 0)) THEN LStrip(From(s, 1)) ELSE s

RECURSIVE RStrip(_)
RStrip(s) ==
    IF Len(s) > 0 /\ IsSpace(CharAt(s, Len(s) - 1))
    THEN RStrip(Slice(s, 0, Len(s) - 1)) ELSE s

\* s.strip()
Strip(s) == RStrip(LStrip(s))

(***************************************************************************)
(* The trigger signal: "<Function_" + four characters of [A-Za-z0-9] +     *)
(* "_Start/>" (generate_random_trigger_signal); one draw of it.            *)
(***************************************************************************)
trigger_signal == "<Function_aB3x_Start/>"
signal_len == Len(trigger_signal)

ThinkOpen == "<think>"
ThinkClose == "</think>"

(***************************************************************************)
(* remove_think_blocks: while the text holds both tags, cut the span from  *)
(* the first <think> to its matching </think> (counting depth); stop when  *)
(* that <think> is never closed.                                           *)
(***************************************************************************)
\* The smallest position among a and b that is a hit (not -1), or -1.
FirstHit(a, b) ==
    IF a = -1 THEN b ELSE IF b = -1 THEN a ELSE Min2(a, b)

\* The inner while loop: it steps one character at a time until a tag starts
\* at pos, so it is at the next tag after as many steps as characters lie
\* before it; the operator goes there in one step.
RECURSIVE ThinkSpanEnd(_, _, _)
ThinkSpanEnd(text, pos, depth) ==
    LET tag == FirstHit(Find(text, ThinkOpen, pos), Find(text, ThinkClose, pos))
    IN  IF ~(pos < Len(text) /\ depth > 0) THEN [pos |-> pos, depth |-> depth]
        ELSE IF tag = -1 THEN [pos |-> Len(text), depth |-> depth]
        ELSE IF StartsWithAt(text, tag, ThinkOpen)
             THEN ThinkSpanEnd(text, tag + 7, depth + 1)
        ELSE ThinkSpanEnd(text, tag + 8, depth - 1)

\* (the text as it is)
KeepThink(text) == text

RECURSIVE remove_think_blocks(_)
remove_think_blocks(text) ==
    IF ~(Contains(text, ThinkOpen) /\ Contains(text, ThinkClose)) THEN text
    ELSE LET start_pos == Find(text, ThinkOpen, 0)
             e == ThinkSpanEnd(text, start_pos + 7, 1)
         IN  IF e.depth = 0
             THEN remove_think_blocks(Slice(text, 0, start_pos) \o From(text, e.pos))
             ELSE text


(***************************************************************************)
(* JSON values and their text.  A decoded value is a tagged record: a      *)
(* string [t |-> "str", s |-> ...], an integer [t |-> "int", n |-> ...],   *)
(* a boolean [t |-> "bool", b |-> ...] or null [t |-> "null"].  The        *)
(* requests and replies of the model carry scalar values only.             *)
(***************************************************************************)
JStr(x) == [t |-> "str", s |-> x]
JInt(x) == [t |-> "int", n |-> x]
JBool(x) == [t |-> "bool", b |-> x]
JNull == [t |-> "null"]

Digits == "0123456789"
IsDigit(c) == Len(c) = 1 /\ Contains(Digits, c)
DigitVal(c) == Find(Digits, c, 0)

RECURSIVE AllDigits(_)
AllDigits(s) ==
    Len(s) = 0 \/ (IsDigit(CharAt(s, 0)) /\ AllDigits(From(s, 1)))

RECURSIVE DigitsVal(_, _)
DigitsVal(s, acc) ==
    IF Len(s) = 0 THEN acc
    ELSE DigitsVal(From(s, 1), 10 * acc + DigitVal(CharAt(s, 0)))

\* JSON's integer literal: -?(0|[1-9][0-9]*)
IsIntLiteral(s) ==
    LET d == IF StartsWithAt(s, 0, "-") THEN From(s, 1) ELSE s
    IN  /\ Len(d) >= 1
        /\ AllDigits(d)
        /\ (Len(d) > 1 => CharAt(d, 0) # "0")

IntLiteralVal(s) ==
    IF StartsWithAt(s, 0, "-") THEN 0 - DigitsVal(From(s, 1), 0) ELSE DigitsVal(s, 0)

\* The characters of a JSON string literal's body, decoded; fails on a bare
\* quote, a control character or an escape other than \" \\ \n \t.
RECURSIVE DecodeStrBody(_, _)
DecodeStrBody(s, acc) ==
    IF Len(s) = 0 THEN [ok |-> TRUE, s |-> acc]
    ELSE LET c == CharAt(s, 0) IN
         IF c \in {"\"", "\n", "\t", "\r"} THEN [ok |-> FALSE, s |-> ""]
         ELSE IF c = "\\"
         THEN LET e == CharAt(s, 1) IN
              IF Len(s) < 2 THEN [ok |-> FALSE, s |-> ""]
              ELSE IF e = "\"" THEN DecodeStrBody(From(s, 2), acc \o "\"")
              ELSE IF e = "\\" THEN DecodeStrBody(From(s, 2), acc \o "\\")
              ELSE IF e = "n" THEN DecodeStrBody(From(s, 2), acc \o "\n")
              ELSE IF e = "t" THEN DecodeStrBody(From(s, 2), acc \o "\t")
              ELSE [ok |-> FALSE, s |-> ""]
         ELSE DecodeStrBody(From(s, 1), acc \o c)

\* json.loads on the text of a scalar: [ok, val]
JsonLoads(v) ==
    LET x == Strip(v) IN
    IF x = "true" THEN [ok |-> TRUE, val |-> JBool(TRUE)]
    ELSE IF x = "false" THEN [ok |-> TRUE, val |-> JBool(FALSE)]
    ELSE IF x = "null" THEN [ok |-> TRUE, val |-> JNull]
    ELSE IF IsIntLiteral(x) THEN [ok |-> TRUE, val |-> JInt(IntLiteralVal(x))]
    ELSE IF Len(x) >= 2 /\ CharAt(x, 0) = "\"" /\ CharAt(x, Len(x) - 1) = "\""
         THEN LET d == DecodeStrBody(Slice(x, 1, Len(x) - 1), "")
              IN  IF d.ok THEN [ok |-> TRUE, val |-> JStr(d.s)]
                  ELSE [ok |-> FALSE, val |-> JNull]
    ELSE [ok |-> FALSE, val |-> JNull]

RECURSIVE EncodeStrBody(_)
EncodeStrBody(s) ==
    IF Len(s) = 0 THEN ""
    ELSE LET c == CharAt(s, 0)
             e == IF c = "\"" THEN "\\\""
                  ELSE IF c = "\\" THEN "\\\\"
                  ELSE IF c = "\n" THEN "\\n"
                  ELSE IF c = "\t" THEN "\\t"
                  ELSE c
         IN  e \o EncodeStrBody(From(s, 1))

RECURSIVE NatToStr(_)
NatToStr(n) ==
    IF n < 10 THEN CharAt(Digits, n)
    ELSE NatToStr(n \div 10) \o CharAt(Digits, n % 10)

\* json.dumps(value, ensure_ascii=False) of a scalar
JsonDumps(val) ==
    IF val.t = "str" THEN "\"" \o EncodeStrBody(val.s) \o "\""
    ELSE IF val.t = "int"
         THEN (IF val.n < 0 THEN "-" \o NatToStr(0 - val.n) ELSE NatToStr(val.n))
    ELSE IF val.t = "bool" THEN (IF val.b THEN "true" ELSE "false")
    ELSE "null"

(***************************************************************************)
(* parse_function_calls_xml.  The regular expressions are lazy, so each    *)
(* match runs from the first opening tag to the first closing tag after    *)
(* it.                                                                     *)
(***************************************************************************)
\* re.search(open + "([\s\S]*?)" + close, text): [found, body]
SearchBlock(text, open, close) ==
    LET p == Find(text, open, 0)
        q == IF p = -1 THEN -1 ELSE Find(text, close, p + Len(open))
    IN  IF q = -1 THEN [found |-> FALSE, body |-> ""]
        ELSE [found |-> TRUE, body |-> Slice(text, p + Len(open), q)]

\* re.findall(open + "([\s\S]*?)" + close, text)
RECURSIVE FindAllBlocks(_, _, _, _)
FindAllBlocks(text, open, close, pos) ==
    LET p == Find(text, open, pos)
        q == IF p = -1 THEN -1 ELSE Find(text, close, p + Len(open))
    IN  IF q = -1 THEN <<>>
        ELSE <<Slice(text, p + Len(open), q)>>
                 \o FindAllBlocks(text, open, close, q + Len(close))

\* re.search(r"<tool>(.*?)</tool>", block): "." does not match a newline
RECURSIVE SearchTool(_, _)
SearchTool(block, pos) ==
    LET p == Find(block, "<tool>", pos)
        q == IF p = -1 THEN -1 ELSE Find(block, "</tool>", p + 6)
    IN  IF q = -1 THEN [found |-> FALSE, body |-> ""]
        ELSE IF Contains(Slice(block, p + 6, q), "\n") THEN SearchTool(block, p + 1)
        ELSE [found |-> TRUE, body |-> Slice(block, p + 6, q)]

\* [^\s>/]+ : a non-empty tag name without whitespace, ">" or "/"
IsTagName(tag) ==
    /\ Len(tag) >= 1
    /\ \A i \in 0..(Len(tag) - 1) :
          ~IsSpace(CharAt(tag, i)) /\ CharAt(tag, i) \notin {">", "/"}

\* re.findall(r"<([^\s>/]+)>([\s\S]*?)</\1>", args_content): the (key, value) pairs
RECURSIVE ArgMatches(_, _)
ArgMatches(text, pos) ==
    LET lt == Find(text, "<", pos)
        gt == IF lt = -1 THEN -1 ELSE Find(text, ">", lt + 1)
    IN  IF gt = -1 THEN <<>>
        ELSE LET tag == Slice(text, lt + 1, gt)
                 close == "</" \o tag \o ">"
                 q == IF IsTagName(tag) THEN Find(text, close, gt + 1) ELSE -1
             IN  IF q = -1 THEN ArgMatches(text, lt + 1)
                 ELSE <<[k |-> tag, v |-> Slice(text, gt + 1, q)]>>
                          \o ArgMatches(text, q + Len(close))

\* _coerce_value: the JSON value of the text, or the text itself
coerce_value(v) ==
    LET r == JsonLoads(v) IN IF r.ok THEN r.val ELSE JStr(v)

\* args[k] = _coerce_value(v), in order: a later pair overrides an earlier one
RECURSIVE ArgsDict(_, _)
ArgsDict(pairs, acc) ==
    IF pairs = <<>> THEN acc
    ELSE ArgsDict(Tail(pairs), (Head(pairs).k :> coerce_value(Head(pairs).v)) @@ acc)

NoArgs == <<>>

ParseArgs(block) ==
    LET m == SearchBlock(block, "<args>", "</args>")
    IN  IF m.found THEN ArgsDict(ArgMatches(m.body, 0), NoArgs) ELSE NoArgs

\* the loop over the call blocks: a block without <tool> is skipped
RECURSIVE ParseCalls(_)
ParseCalls(blocks) ==
    IF blocks = <<>> THEN <<>>
    ELSE LET block == Head(blocks)
             tool == SearchTool(block, 0)
         IN  IF ~tool.found THEN ParseCalls(Tail(blocks))
             ELSE <<[name |-> Strip(tool.body), args |-> ParseArgs(block)]>>
                      \o ParseCalls(Tail(blocks))

\* cleaned_content.find(trigger_signal, ...) repeated: the last position, or -1
RECURSIVE LastFind(_, _, _, _)
\* (the first position instead)
FirstFind(text, p, start, last) == Find(text, p, start)

LastFind(text, p, start, last) ==
    LET pos == Find(text, p, start)
    IN  IF pos = -1 THEN last ELSE LastFind(text, p, pos + 1, pos)

\* The result is a sequence of [name, args]; the empty sequence stands for None.
parse_function_calls_xml(xml_string, signal) ==
    IF xml_string = "" \/ ~Contains(xml_string, signal) THEN <<>>
    ELSE LET cleaned_content == remove_think_blocks(xml_string)
             last_signal_pos == LastFind(cleaned_content, signal, 0, -1)
         IN  IF last_signal_pos = -1 THEN <<>>
             ELSE LET content_after_signal == From(cleaned_content, last_signal_pos)
                      calls == SearchBlock(content_after_signal,
                                           "<function_calls>", "</function_calls>")
                  IN  IF ~calls.found THEN <<>>
                      ELSE ParseCalls(FindAllBlocks(calls.body,
                               "<function_call>", "</function_call>", 0))

(***************************************************************************)
(* StreamingFunctionCallDetector.  A detector is the record                *)
(* [content_buffer, state, in_think_block, think_depth].                   *)
(***************************************************************************)
NewDetector ==
    [content_buffer |-> "", state |-> "detecting",
     in_think_block |-> FALSE, think_depth |-> 0]

\* _update_think_state at a position where a tag starts: the new
\* [think_depth, in_think_block, skip]
UpdateThinkStateFlag(d, buf, pos) ==
    IF StartsWithAt(buf, pos, ThinkOpen)
    THEN [think_depth |-> d.think_depth + 1, in_think_block |-> TRUE, skip |-> 7]
    ELSE IF StartsWithAt(buf, pos, ThinkClose)
    THEN [think_depth |-> Max2(0, d.think_depth - 1), in_think_block |-> FALSE,
          skip |-> 8]
    ELSE [think_depth |-> d.think_depth, in_think_block |-> d.in_think_block,
          skip |-> 0]

update_think_state(d, buf, pos) ==
    IF StartsWithAt(buf, pos, ThinkOpen)
    THEN [think_depth |-> d.think_depth + 1, in_think_block |-> TRUE, skip |-> 7]
    ELSE IF StartsWithAt(buf, pos, ThinkClose)
    THEN [think_depth |-> Max2(0, d.think_depth - 1),
          in_think_block |-> Max2(0, d.think_depth - 1) > 0, skip |-> 8]
    ELSE [think_depth |-> d.think_depth, in_think_block |-> d.in_think_block,
          skip |-> 0]

\* _can_detect_signal_at
can_detect_signal_at(d, buf, pos) ==
    pos + signal_len <= Len(buf) /\ ~d.in_think_block

\* The look-ahead guard of the loop: no plain character is passed through
\* when fewer than signal_len or fewer than 8 characters remain.
HoldBackShort(remaining_len) == remaining_len < 8

HoldBack(remaining_len) == remaining_len < signal_len \/ remaining_len < 8

\* The first position >= i of the buffer at which the loop refuses to pass
\* a plain character through.
StopPos(buf, i) ==
    CHOOSE p \in i..Len(buf) :
        /\ HoldBack(Len(buf) - p)
        /\ p = i \/ ~HoldBack(Len(buf) - (p - 1))

\* The signal test of the loop at pos.
SignalAt(d, buf, pos) ==
    /\ ~d.in_think_block
    /\ can_detect_signal_at(d, buf, pos)
    /\ Slice(buf, pos, pos + signal_len) = trigger_signal

\* a think tag starts at pos
TagAt(buf, pos) == StartsWithAt(buf, pos, ThinkOpen) \/ StartsWithAt(buf, pos, ThinkClose)

\* The first position in i..stop where the loop does something other than
\* pass a plain character through, or -1.
FirstEvent(d, buf, i, stop) ==
    LET hits == {p \in i..stop : TagAt(buf, p) \/ SignalAt(d, buf, p)}
    IN  IF hits = {} THEN -1 ELSE CHOOSE p \in hits : \A q \in hits : p <= q

\* The characters of a think tag, passed through (the for loop over skip_chars).
PassTagDropped(buf, pos, skip_chars) == ""

PassTag(buf, pos, skip_chars) == Slice(buf, pos, pos + skip_chars)

(***************************************************************************)
(* The while loop of process_chunk from position i with out already       *)
(* collected.  The loop passes one plain character per iteration; it does  *)
(* something else only where a think tag starts, where the signal starts   *)
(* outside a think block, or where the look-ahead guard breaks it.  The    *)
(* operator moves from one such position to the next, passing the          *)
(* characters in between, so its recursion is as deep as the tags are      *)
(* many.                                                                   *)
(***************************************************************************)
RECURSIVE ScanBuffer(_, _, _, _)
ScanBuffer(d, buf, i, out) ==
    CHOOSE ret \in
        {IF i >= Len(buf) \/ ev = -1
         THEN \* the loop ends, or breaks at the look-ahead guard
              [detected |-> FALSE,
               out |-> out \o Slice(buf, i, StopPos(buf, i)),
               d |-> [d EXCEPT !.content_buffer = From(buf, StopPos(buf, i))]]
         ELSE IF TagAt(buf, ev)
         THEN \* a think tag: update the state, pass the tag through
              LET u == update_think_state(d, buf, ev)
              IN  ScanBuffer([d EXCEPT !.think_depth = u.think_depth,
                                       !.in_think_block = u.in_think_block],
                             buf, ev + u.skip,
                             out \o Slice(buf, i, ev) \o PassTag(buf, ev, u.skip))
         ELSE \* the signal outside a think block
              [detected |-> TRUE,
               out |-> out \o Slice(buf, i, ev),
               d |-> [d EXCEPT !.state = "tool_parsing",
                               !.content_buffer = From(buf, ev)]]
         : ev \in {FirstEvent(d, buf, i, StopPos(buf, i))}} : TRUE

\* process_chunk(delta_content): [detected, out, d]
process_chunk(d, delta_content) ==
    IF delta_content = "" THEN [detected |-> FALSE, out |-> "", d |-> d]
    ELSE IF d.state = "tool_parsing"
    THEN [detected |-> FALSE, out |-> "",
          d |-> [d EXCEPT !.content_buffer = @ \o delta_content]]
    ELSE CHOOSE ret \in {ScanBuffer(d, buf, 0, "") :
                         buf \in {d.content_buffer \o delta_content}} : TRUE

\* finalize(): the parsed calls, <<>> for None
finalize(d) ==
    IF d.state = "tool_parsing"
    THEN parse_function_calls_xml(d.content_buffer, trigger_signal)
    ELSE <<>>

(***************************************************************************)
(* The configuration.  A config is what config.yaml holds: the upstream    *)
(* services in file order, each with its name, priority, api_key and model *)
(* entries ("model" or "alias:model"), the allowed client keys, and the    *)
(* features and server settings the request path reads.                    *)
(***************************************************************************)
Service(name, priority, api_key, models) ==
    [name |-> name, priority |-> priority, api_key |-> api_key, models |-> models]

Config(services, model_passthrough, key_passthrough, enable_fc, timeout, allowed_keys) ==
    [upstream_services |-> services, model_passthrough |-> model_passthrough,
     key_passthrough |-> key_passthrough, enable_function_calling |-> enable_fc,
     timeout |-> timeout, allowed_keys |-> allowed_keys,
     convert_developer_to_system |-> TRUE]

BaseConfig ==
    Config(<<Service("openai", 1, "k", <<"gpt-4">>)>>, FALSE, FALSE, TRUE, 180, <<"ck">>)

\* model_entry.split(':', 1)
AliasOf(entry) == Slice(entry, 0, Find(entry, ":", 0))
ModelOf(entry) == From(entry, Find(entry, ":", 0) + 1)

RECURSIVE Flatten(_)
Flatten(seqs) == IF seqs = <<>> THEN <<>> ELSE Head(seqs) \o Flatten(Tail(seqs))

\* every model entry of the config, in file order
AllEntries(config) ==
    Flatten([i \in DOMAIN config.upstream_services |-> config.upstream_services[i].models])

\* AppConfig(**config_data): the validators of UpstreamService, ClientAuthConfig,
\* ServerConfig and AppConfig.  (The validator's 'openai' test for
\* model_passthrough reads a field that is validated later; the configs here
\* keep a service of that name whenever model_passthrough is on.)
ValidConfig(config) ==
    /\ config.upstream_services # <<>>
    /\ \A e \in Range(AllEntries(config)) :
           /\ Strip(e) # ""
           /\ Contains(e, ":") => Strip(AliasOf(e)) # "" /\ Strip(ModelOf(e)) # ""
    /\ {AliasOf(e) : e \in {x \in Range(AllEntries(config)) : Contains(x, ":")}}
           \cap {x \in Range(AllEntries(config)) : ~Contains(x, ":")} = {}
    /\ config.allowed_keys # <<>>
    /\ \A k \in Range(config.allowed_keys) : Strip(k) # ""
    /\ config.timeout >= 1

service_info(service) ==
    [name |-> service.name, priority |-> service.priority, api_key |-> service.api_key]

Unsorted(services) == services

\* sorted(services, key=priority, reverse=True): stable
RECURSIVE sorted_by_priority(_)
sorted_by_priority(services) ==
    IF services = <<>> THEN <<>>
    ELSE LET top == CHOOSE p \in {services[i].priority : i \in DOMAIN services} :
                        \A i \in DOMAIN services : services[i].priority <= p
         IN  SelectSeq(services, LAMBDA x : x.priority = top)
             \o sorted_by_priority(SelectSeq(services, LAMBDA x : x.priority # top))

InfoOf(services) == [i \in DOMAIN services |-> service_info(services[i])]

\* ConfigLoader.get_model_to_service_mapping
model_mapping(config) ==
    [entry \in Range(AllEntries(config)) |->
        sorted_by_priority(InfoOf(SelectSeq(config.upstream_services,
                                            LAMBDA x : entry \in Range(x.models))))]

alias_mapping(config) ==
    [alias \in {AliasOf(e) : e \in {x \in Range(AllEntries(config)) : Contains(x, ":")}} |->
        SelectSeq(AllEntries(config), LAMBDA e : Contains(e, ":") /\ AliasOf(e) = alias)]

\* ConfigLoader.get_default_service: the first service of the highest
\* priority among those with models and a key, or among all of them
get_default_service(config) ==
    LET valid == SelectSeq(config.upstream_services,
                           LAMBDA x : x.models # <<>> /\ Strip(x.api_key) # "")
        valid_services == IF valid = <<>> THEN config.upstream_services ELSE valid
    IN  service_info(sorted_by_priority(valid_services)[1])

get_allowed_client_keys(config) == Range(config.allowed_keys)

\* generate_random_trigger_signal: the draws in play
OtherSignal == "<Function_Zq9k_Start/>"
Signals == {trigger_signal, OtherSignal}

\* load_runtime_config: the config read and the globals derived from it
Loaded(config, signal) ==
    /\ app_config = config
    /\ MODEL_TO_SERVICE_MAPPING = model_mapping(config)
    /\ ALIAS_MAPPING = alias_mapping(config)
    /\ DEFAULT_SERVICE = get_default_service(config)
    /\ ALLOWED_CLIENT_KEYS = get_allowed_client_keys(config)
    /\ GLOBAL_TRIGGER_SIGNAL = signal

load_runtime_config(config, signal) ==
    /\ app_config' = config
    /\ MODEL_TO_SERVICE_MAPPING' = model_mapping(config)
    /\ ALIAS_MAPPING' = alias_mapping(config)
    /\ DEFAULT_SERVICE' = get_default_service(config)
    /\ ALLOWED_CLIENT_KEYS' = get_allowed_client_keys(config)
    /\ GLOBAL_TRIGGER_SIGNAL' = signal

(***************************************************************************)
(* find_upstream: the services to try, by priority, and the model name to  *)
(* send; draw is what random.choice draws.  raised: HTTPException(500).    *)
(***************************************************************************)
AnyKey(service) == TRUE
HasKey(service) == Strip(service.api_key) # ""

Routed(services, actual_model_name, chosen) ==
    [raised |-> FALSE, services |-> services,
     actual_model_name |-> actual_model_name, chosen |-> chosen]
RouteError == [raised |-> TRUE, services |-> <<>>, actual_model_name |-> "", chosen |-> ""]

\* random.choice(seq): seq[randbelow(len(seq))]
random_choice(seq, draw) == seq[(draw % Len(seq)) + 1]

\* what randbelow can draw for the model name
Draws(model_name) ==
    IF ~app_config.model_passthrough /\ model_name \in DOMAIN ALIAS_MAPPING
    THEN 0..(Len(ALIAS_MAPPING[model_name]) - 1)
    ELSE {0}

find_upstream(model_name, draw) ==
    IF app_config.model_passthrough
    THEN LET all_services ==
                 SelectSeq(InfoOf(app_config.upstream_services), HasKey)
         IN  IF all_services # <<>>
             THEN Routed(sorted_by_priority(all_services), model_name, model_name)
             ELSE RouteError
    ELSE LET chosen_model_entry ==
                 IF model_name \in DOMAIN ALIAS_MAPPING
                 THEN random_choice(ALIAS_MAPPING[model_name], draw)
                 ELSE model_name
             actual_model_name ==
                 IF Contains(chosen_model_entry, ":") THEN ModelOf(chosen_model_entry)
                 ELSE chosen_model_entry
         IN  IF chosen_model_entry \in DOMAIN MODEL_TO_SERVICE_MAPPING
             THEN LET valid_services ==
                          SelectSeq(MODEL_TO_SERVICE_MAPPING[chosen_model_entry], HasKey)
                  IN  IF valid_services = <<>> THEN RouteError
                      ELSE Routed(valid_services, actual_model_name, chosen_model_entry)
             ELSE IF DEFAULT_SERVICE.api_key = "" THEN RouteError
             ELSE Routed(<<DEFAULT_SERVICE>>, actual_model_name, chosen_model_entry)

(***************************************************************************)
(* The parts of the state a specification leaves alone.                    *)
(***************************************************************************)
StreamIdle ==
    /\ upstream_tokens = <<>>
    /\ upstream_text = ""
    /\ upstream_pos = 0
    /\ detector = NewDetector
    /\ proxy_pc = "idle"
    /\ client = <<>>
    /\ stream_aborted = FALSE
    /\ last_ret = None
    /\ fault = None

MapIdle ==
    /\ data = <<>>
    /\ timestamps = <<>>
    /\ now = 0
    /\ map_op = [op |-> "init", id |-> 0, result |-> None, at |-> 0, over |-> FALSE]
    /\ h_store = [i \in Ids |-> NoRec]
    /\ h_evicted = {}
    /\ h_touch = <<>>
    /\ h_expiry = FALSE

ReqIdle ==
    /\ upstreams = <<>>
    /\ upstream_idx = 0
    /\ contacted = <<>>
    /\ response = None
    /\ has_function_call = FALSE
    /\ req_pc = "idle"
    /\ processed = None
    /\ dispatched = None
    /\ posted = <<>>

FnIdle ==
    /\ fn_pc = "idle"
    /\ fn_in = None
    /\ fn_text = ""
    /\ fn_out = None

\* nobody holds the lock; the request threads are idle and the sweeper sleeps
LockIdle ==
    /\ lock = [owner |-> "none", count |-> 0]
    /\ thread = [th \in Threads |-> IdleThread(th)]

CfgIdle ==
    /\ Loaded(BaseConfig, trigger_signal)
    /\ config_file = BaseConfig
    /\ admin_reply = None

(***************************************************************************)
(* The streaming proxy: stream_proxy_with_fc_transform with function       *)
(* calling on, consumed by chat_completions' stream_with_token_count.      *)
(* A chunk is a record with its kind and enc, "bytes" or "str": the type   *)
(* of the Python object the generator yields.  The upstream keeps to its   *)
(* contract: it answers 200 and every line is "data: {json}" or            *)
(* "data: [DONE]".                                                         *)
(***************************************************************************)
ParseErrorText == "Error: Detected tool use signal but failed to parse function call format"

ContentChunk(id, text) ==
    [kind |-> "content", id |-> id, content |-> text, enc |-> "bytes"]
DoneChunk(enc) == [kind |-> "done", enc |-> enc]

\* uuid4: an id no call has had yet
FreshId(m) ==
    CHOOSE id \in Ids : /\ m.h_store[id] = NoRec
                        /\ \A other \in Ids : m.h_store[other] = NoRec => id <= other
FreshIdsLeft(m) == Cardinality({id \in Ids : m.h_store[id] = NoRec})

\* _prepare_tool_calls: store each parsed call under a fresh id, then list it
RECURSIVE prepare_tool_calls(_, _, _, _)
prepare_tool_calls(parsed_tools, i, m, t) ==
    IF i > Len(parsed_tools) THEN [tool_calls |-> <<>>, m |-> m]
    ELSE LET tool == parsed_tools[i]
             tool_call_id == FreshId(m)
             m2 == StoreIn(m, tool_call_id, tool.name, tool.args, t)
             rest == prepare_tool_calls(parsed_tools, i + 1, m2, t)
         IN  [tool_calls |-> <<[index |-> i - 1, id |-> tool_call_id,
                                name |-> tool.name, arguments |-> tool.args]>>
                                \o rest.tool_calls,
              m |-> rest.m]

\* _build_tool_call_sse_chunks: the three chunks, as str
build_tool_call_sse_chunks(tool_calls) ==
    << [kind |-> "tool_calls", tool_calls |-> tool_calls,
        finish_reason |-> "null", enc |-> "str"],
       [kind |-> "finish", finish_reason |-> "tool_calls", enc |-> "str"],
       DoneChunk("str") >>

\* sse.encode('utf-8') on each chunk
Encoded(chunks) == [i \in DOMAIN chunks |-> [chunks[i] EXCEPT !.enc = "bytes"]]

AsYielded(chunks) == chunks

(***************************************************************************)
(* stream_with_token_count: chunk.startswith(b"data: ") raises TypeError   *)
(* on a str chunk, which ends the response; the [DONE] chunk ends the loop *)
(* and is sent on; every other chunk is sent on as it is.                  *)
(***************************************************************************)
\* The client joins the content deltas of one run as they arrive.
Receive(sent, chunk) ==
    IF /\ sent # <<>>
       /\ chunk.kind = "content"
       /\ sent[Len(sent)].kind = "content"
       /\ sent[Len(sent)].id = chunk.id
    THEN [sent EXCEPT ![Len(sent)].content = @ \o chunk.content]
    ELSE Append(sent, chunk)

RECURSIVE stream_with_token_count(_, _)
stream_with_token_count(chunks, sent) ==
    IF chunks = <<>> THEN [client |-> sent, aborted |-> FALSE, done |-> FALSE]
    ELSE IF Head(chunks).enc = "str"
         THEN [client |-> sent, aborted |-> TRUE, done |-> FALSE]
    ELSE IF Head(chunks).kind = "done"
         THEN [client |-> Receive(sent, Head(chunks)), aborted |-> FALSE, done |-> TRUE]
    ELSE stream_with_token_count(Tail(chunks), Receive(sent, Head(chunks)))

\* The generator yields chunks; returns says whether it has then returned.
Yield(chunks, returns) ==
    \E w \in {stream_with_token_count(chunks, client)} :
        /\ client' = w.client
        /\ stream_aborted' = w.aborted
        /\ proxy_pc' = IF w.aborted \/ w.done \/ returns THEN "returned" ELSE "streaming"

\* Finalize that ends the stream without a word when nothing was parsed
FinalizeSilent(d, early) ==
    \E parsed_tools \in {finalize(d)} :
        IF parsed_tools # <<>>
        THEN /\ FreshIdsLeft(TheMap) >= Len(parsed_tools)
             /\ \E prep \in {prepare_tool_calls(parsed_tools, 1, TheMap, now)} :
                 /\ SetMap(prep.m)
                 /\ map_op' = [op |-> "store",
                               id |-> prep.tool_calls[Len(parsed_tools)].id,
                               result |-> None, at |-> now,
                               over |-> FALSE]
                 /\ Yield(IF early
                          THEN Encoded(build_tool_call_sse_chunks(prep.tool_calls))
                          ELSE AsYielded(build_tool_call_sse_chunks(prep.tool_calls)),
                          TRUE)
        ELSE /\ Yield(<<DoneChunk("bytes")>>, TRUE)
             /\ UNCHANGED <<data, timestamps, map_op, h_store, h_evicted, h_touch>>

\* detector.finalize() and what follows it, in the loop (early) or after it
Finalize(d, early) ==
    \E parsed_tools \in {finalize(d)} :
        IF parsed_tools # <<>>
        THEN /\ FreshIdsLeft(TheMap) >= Len(parsed_tools)
             /\ \E prep \in {prepare_tool_calls(parsed_tools, 1, TheMap, now)} :
                 /\ SetMap(prep.m)
                 /\ map_op' = [op |-> "store",
                               id |-> prep.tool_calls[Len(parsed_tools)].id,
                               result |-> None, at |-> now,
                               over |-> FALSE]
                 /\ Yield(IF early
                          THEN Encoded(build_tool_call_sse_chunks(prep.tool_calls))
                          ELSE AsYielded(build_tool_call_sse_chunks(prep.tool_calls)),
                          TRUE)
        ELSE /\ Yield(<<ContentChunk("error-chunk", ParseErrorText), DoneChunk("bytes")>>,
                      TRUE)
             /\ UNCHANGED <<data, timestamps, map_op, h_store, h_evicted, h_touch>>

\* A loop that goes on passing the deltas through after the detection.
OnDataLinePassing(delta_content) ==
    IF detector.state = "tool_parsing"
    THEN /\ detector' = [detector EXCEPT !.content_buffer = @ \o delta_content]
         /\ UNCHANGED last_ret
         /\ Yield(IF delta_content # "" THEN <<ContentChunk("passthrough", delta_content)>>
                  ELSE <<>>, FALSE)
         /\ UNCHANGED <<data, timestamps, map_op, h_store, h_evicted, h_touch>>
    ELSE \E r \in {process_chunk(detector, delta_content)} :
             /\ detector' = r.d
             /\ last_ret' = [detected |-> r.detected]
             /\ Yield(IF r.out # "" THEN <<ContentChunk("passthrough", r.out)>> ELSE <<>>,
                      FALSE)
             /\ UNCHANGED <<data, timestamps, map_op, h_store, h_evicted, h_touch>>

\* One "data:" line of the upstream with a JSON chunk whose delta content is
\* delta_content ("" when the delta has none).
OnDataLine(delta_content) ==
    IF detector.state = "tool_parsing"
    THEN LET d2 == [detector EXCEPT !.content_buffer = @ \o delta_content]
         IN  /\ detector' = d2
             /\ UNCHANGED last_ret
             /\ IF Contains(d2.content_buffer, "</function_calls>")
                THEN Finalize(d2, TRUE)
                ELSE UNCHANGED <<client, stream_aborted, proxy_pc, data, timestamps,
                                 map_op, h_store, h_evicted, h_touch>>
    ELSE IF delta_content # ""
    THEN \E r \in {process_chunk(detector, delta_content)} :
             /\ detector' = r.d
             /\ last_ret' = [detected |-> r.detected]
             /\ Yield(IF r.out # "" THEN <<ContentChunk("passthrough", r.out)>> ELSE <<>>,
                      FALSE)
             /\ UNCHANGED <<data, timestamps, map_op, h_store, h_evicted, h_touch>>
    ELSE UNCHANGED <<detector, last_ret, client, stream_aborted, proxy_pc, data,
                     timestamps, map_op, h_store, h_evicted, h_touch>>

\* The code after the loop, when the upstream's lines are exhausted.
AfterLoop ==
    IF detector.state = "tool_parsing"
    THEN Finalize(detector, FALSE)
    ELSE /\ Yield(IF detector.content_buffer # ""
                  THEN <<ContentChunk("finalflush", detector.content_buffer),
                         DoneChunk("bytes")>>
                  ELSE <<DoneChunk("bytes")>>, TRUE)
         /\ UNCHANGED <<data, timestamps, map_op, h_store, h_evicted, h_touch>>

(***************************************************************************)
(* The upstream's reply: up to MaxTokens pieces, any of plain text, a      *)
(* think tag, a nested think opening, the trigger signal, a                *)
(* function_calls block with two calls, and a closing tag alone.  It arrives as deltas of 1..MaxChunk           *)
(* characters, or up to the end of the current piece, or all at once.      *)
(***************************************************************************)
MaxTokens == 3
MaxChunk == 2

TokPlain == "Hi "
TokCalls ==
    "<function_calls><function_call><tool>t</tool></function_call><function_call><tool>get_weather</tool><args><n>1</n></args></function_call></function_calls>"
TokOneCall ==
    "<function_calls><function_call><tool>t</tool></function_call></function_calls>"
TokCloseOnly == "</function_calls>"
TokNested == "<think><think></think>"  \* a think block left open around a closed one
TokOpenTwice == "<think><think>"

StreamTokens ==
    {TokPlain, ThinkOpen, ThinkClose, TokNested, trigger_signal, TokCalls, TokCloseOnly}

TokenSeqs(n) == UNION {[1..k -> StreamTokens] : k \in 0..n}

RECURSIVE Concat(_)
Concat(ts) == IF ts = <<>> THEN "" ELSE Head(ts) \o Concat(Tail(ts))

\* where piece k of the reply ends
TokenEnd(ts, k) == Len(Concat(SubSeq(ts, 1, k)))

\* the piece that holds the character at pos
TokenAt(ts, pos) ==
    CHOOSE k \in 1..Len(ts) : TokenEnd(ts, k - 1) <= pos /\ pos < TokenEnd(ts, k)

\* A delta is cut anywhere in plain text, a think tag or the signal; the XML
\* pieces, which hold nothing the detector looks for, and the nested opening
\* are cut at their ends, and so is every piece of a reply in a conversation
\* (req_pc = "stream").
UncutTokens == {TokCalls, TokOneCall, TokCloseOnly, TokNested}

ChunkLens ==
    LET left == Len(upstream_text) - upstream_pos
        k == TokenAt(upstream_tokens, upstream_pos)
    IN  IF left = 0 THEN {}
        ELSE (IF upstream_tokens[k] \in UncutTokens \/ req_pc = "stream" THEN {}
              ELSE {n \in 1..MaxChunk : n <= left})
             \cup {TokenEnd(upstream_tokens, k) - upstream_pos, left}

StreamInit ==
    /\ MapIdle
    /\ ReqIdle
    /\ FnIdle
    /\ CfgIdle /\ LockIdle
    /\ upstream_tokens \in TokenSeqs(MaxTokens)
    /\ upstream_text = Concat(upstream_tokens)
    /\ upstream_pos = 0
    /\ detector = NewDetector
    /\ proxy_pc = "streaming"
    /\ client = <<>>
    /\ stream_aborted = FALSE
    /\ last_ret = None
    /\ fault = None

\* A chunk with the next k characters of the reply arrives.
UpstreamDelta ==
    /\ proxy_pc = "streaming"
    /\ \E k \in ChunkLens :
          /\ upstream_pos' = upstream_pos + k
          /\ OnDataLine(Slice(upstream_text, upstream_pos, upstream_pos + k))
    /\ UNCHANGED <<upstream_tokens, upstream_text, fault, now, h_expiry, reqvars, fnvars,
                   cfgvars, lockvars>>

\* A chunk without content arrives (a role or finish_reason chunk).
UpstreamEmptyDelta ==
    /\ proxy_pc = "streaming"
    /\ OnDataLine("")
    /\ UNCHANGED <<upstream_tokens, upstream_text, upstream_pos, fault, now, h_expiry,
                   reqvars, fnvars, cfgvars, lockvars>>

\* The upstream's stream ends.
UpstreamEnd ==
    /\ proxy_pc = "streaming"
    /\ upstream_pos = Len(upstream_text)
    /\ AfterLoop
    /\ UNCHANGED <<upstream_tokens, upstream_text, upstream_pos, detector, last_ret,
                   fault, now, h_expiry, reqvars, fnvars, cfgvars, lockvars>>

StreamNext == UpstreamDelta \/ UpstreamEmptyDelta \/ UpstreamEnd

SpecStream == StreamInit /\ [][StreamNext]_vars

(***************************************************************************)
(* What the reply is, told from its pieces: the think depth before each    *)
(* piece, and the first signal that stands outside every think block.      *)
(***************************************************************************)
DepthChange(tok) ==
    IF tok = TokOpenTwice THEN 2
    ELSE IF tok \in {ThinkOpen, TokNested} THEN 1 ELSE IF tok = ThinkClose THEN -1 ELSE 0

RECURSIVE DepthAfter(_, _)
DepthAfter(ts, k) ==
    IF k = 0 THEN 0 ELSE Max2(0, DepthAfter(ts, k - 1) + DepthChange(ts[k]))

SignalsAt(ts) == {k \in DOMAIN ts : ts[k] = trigger_signal}
SignalsOutside(ts) == {k \in SignalsAt(ts) : DepthAfter(ts, k - 1) = 0}
FirstOutside(ts) == CHOOSE k \in SignalsOutside(ts) : \A j \in SignalsOutside(ts) : k <= j

\* the signal at k stands in a think block that is closed later on
InBalancedThink(ts, k) ==
    /\ DepthAfter(ts, k - 1) > 0
    /\ \E j \in (k + 1)..Len(ts) : DepthAfter(ts, j) < DepthAfter(ts, k - 1)

\* the text before the first signal outside think, or all of it
PreText(ts) ==
    IF SignalsOutside(ts) = {} THEN Concat(ts)
    ELSE Concat(SubSeq(ts, 1, FirstOutside(ts) - 1))

\* what the client has of a kind
RECURSIVE JoinContent(_, _)
JoinContent(chunks, ids) ==
    IF chunks = <<>> THEN ""
    ELSE (IF Head(chunks).kind = "content" /\ Head(chunks).id \in ids
          THEN Head(chunks).content ELSE "")
         \o JoinContent(Tail(chunks), ids)

Forwarded == JoinContent(client, {"passthrough", "finalflush"})
ToolEvents == SelectSeq(client, LAMBDA c : c.kind \in {"tool_calls", "finish"})
HasChunk(id) == \E i \in DOMAIN client : client[i].kind = "content" /\ client[i].id = id

(***************************************************************************)
(* C1. Streaming passthrough: when no signal of the reply stands outside   *)
(* a think block then, however the reply is cut into deltas, the text      *)
(* passed through so far followed by the detector's buffer is the text     *)
(* received so far, at the end the client has exactly the reply's text,    *)
(* and no tool-call event is sent.                                         *)
(***************************************************************************)
C1_StreamingPassthrough ==
    SignalsOutside(upstream_tokens) = {} =>
        /\ ToolEvents = <<>>
        /\ detector.state = "detecting"
        /\ ~HasChunk("error-chunk")
        /\ proxy_pc = "streaming" =>
               /\ JoinContent(client, {"passthrough"}) \o detector.content_buffer
                      = Slice(upstream_text, 0, upstream_pos)
               /\ ~HasChunk("finalflush")
        /\ proxy_pc = "returned" =>
               /\ Forwarded = upstream_text
               /\ client[Len(client)].kind = "done"

C1_Witness ==
    /\ proxy_pc = "returned"
    /\ SignalsOutside(upstream_tokens) = {}
    /\ SignalsAt(upstream_tokens) # {}
    /\ HasChunk("passthrough")
    /\ HasChunk("finalflush")
    /\ Forwarded = upstream_text

(***************************************************************************)
(* C2. Think-block decoy: when every signal of the reply stands inside a   *)
(* think block that is closed later (nested blocks included) then, however *)
(* the reply is cut into deltas, process_chunk never reports a detection,  *)
(* the detector stays in the detecting state and the client gets no        *)
(* tool-call event.                                                        *)
(***************************************************************************)
C2_ThinkDecoy ==
    (\A k \in SignalsAt(upstream_tokens) : InBalancedThink(upstream_tokens, k)) =>
        /\ last_ret # None => ~last_ret.detected
        /\ detector.state = "detecting"
        /\ ToolEvents = <<>>

C2_Witness ==
    /\ proxy_pc = "returned"
    /\ upstream_tokens = <<TokNested, trigger_signal, ThinkClose>>
    /\ last_ret # None
    /\ ~last_ret.detected
    /\ detector.state = "detecting"

(***************************************************************************)
(* C3. Ordering.  As claimed: at the end the client has been forwarded     *)
(* every character of the reply but those of the detected signal and of    *)
(* the function_calls block that follows it, in order; the text between    *)
(* signal and block, after the block, and after a signal whose block does  *)
(* not parse are among them.                                               *)
(***************************************************************************)
BlockAfter(ts, k) == {j \in (k + 1)..Len(ts) : ts[j] = TokCalls}

RECURSIVE Pieces(_, _, _)
Pieces(ts, k, drop) ==
    IF k > Len(ts) THEN ""
    ELSE (IF k \in drop THEN "" ELSE ts[k]) \o Pieces(ts, k + 1, drop)

ToForward(ts) ==
    IF SignalsOutside(ts) = {} THEN Concat(ts)
    ELSE LET k == FirstOutside(ts)
             blocks == BlockAfter(ts, k)
         IN  Pieces(ts, 1,
                    {k} \cup (IF blocks = {} THEN {}
                              ELSE {CHOOSE j \in blocks : \A i \in blocks : j <= i}))

ContentPart(chunks) == SelectSeq(chunks, LAMBDA c : c.kind = "content")
EventPart(chunks) == SelectSeq(chunks, LAMBDA c : c.kind # "content")

C4_SseSynthesisOrder ==
    (/\ proxy_pc = "returned"
     /\ detector.state = "tool_parsing"
     /\ finalize(detector) # <<>>) =>
        LET calls == finalize(detector)
            n == Len(calls)
            ev == EventPart(client)
        IN  /\ client = ContentPart(client) \o ev
            /\ JoinContent(client, {"passthrough"}) = PreText(upstream_tokens)
            /\ ~HasChunk("error-chunk") /\ ~HasChunk("finalflush")
            /\ Len(ev) = 3
            /\ ev[1].kind = "tool_calls" /\ ev[1].finish_reason = "null"
            /\ Len(ev[1].tool_calls) = n
            /\ \A i \in 1..n : /\ ev[1].tool_calls[i].index = i - 1
                               /\ ev[1].tool_calls[i].name = calls[i].name
                               /\ ev[1].tool_calls[i].arguments = calls[i].args
            /\ ev[2].kind = "finish" /\ ev[2].finish_reason = "tool_calls"
            /\ ev[3].kind = "done"

(***************************************************************************)
(* The unary parser on its own: parse_function_calls_xml applied to a      *)
(* reply of up to MaxParseTokens pieces.                                   *)
(***************************************************************************)
MaxParseTokens == 4

TokEmptyBlock == "<function_calls></function_calls>"
\* a call whose tool value is padded, one whose tool value holds a newline,
\* one without a tool tag
TokMixedBlock ==
    "<function_calls><function_call><tool> t </tool></function_call><function_call><tool>a\nb</tool></function_call><function_call><name>x</name></function_call></function_calls>"

BlockTokens == {TokCalls, TokEmptyBlock, TokMixedBlock}
ParseTokens == {TokPlain, ThinkOpen, ThinkClose, TokOpenTwice, trigger_signal} \cup BlockTokens

ParseInit ==
    /\ MapIdle /\ StreamIdle /\ ReqIdle /\ CfgIdle /\ LockIdle
    /\ fn_pc = "given"
    /\ fn_in \in UNION {[1..k -> ParseTokens] : k \in 1..MaxParseTokens}
    /\ fn_text = Concat(fn_in)
    /\ fn_out = None

ParseReply ==
    /\ fn_pc = "given"
    /\ fn_pc' = "parsed"
    /\ fn_out' = parse_function_calls_xml(fn_text, trigger_signal)
    /\ UNCHANGED <<fn_in, fn_text, mapvars, streamvars, reqvars, cfgvars, lockvars>>

ParseNext == ParseReply

SpecParse == ParseInit /\ [][ParseNext]_vars

\* What a block piece holds: the values between <tool> and </tool> of its
\* calls, in order, and the names a reader of one-line tool tags takes from
\* them.
ToolValues(tok) ==
    IF tok = TokCalls THEN <<"t", "get_weather">>
    ELSE IF tok = TokMixedBlock THEN <<" t ", "a\nb">>
    ELSE <<>>

TrimmedNames(tok) ==
    IF tok = TokCalls THEN <<"t", "get_weather">>
    ELSE IF tok = TokMixedBlock THEN <<"t">>
    ELSE <<>>

NamesOf(calls) == [i \in DOMAIN calls |-> calls[i].name]

First(S) == CHOOSE x \in S : \A y \in S : x <= y
Last(S) == CHOOSE x \in S : \A y \in S : x >= y

RECURSIVE SpanEnd(_, _, _)
SpanEnd(ts, k, depth) ==
    IF k > Len(ts) \/ depth = 0 THEN [k |-> k, depth |-> depth]
    ELSE SpanEnd(ts, k + 1, depth + DepthChange(ts[k]))

RECURSIVE WithoutThink(_)
WithoutThink(ts) ==
    IF ~((\E k \in DOMAIN ts : DepthChange(ts[k]) > 0) /\ ThinkClose \in Range(ts)) THEN ts
    ELSE LET open == First({k \in DOMAIN ts : DepthChange(ts[k]) > 0})
             e == SpanEnd(ts, open + 1, DepthChange(ts[open]))
         IN  IF e.depth = 0
             THEN WithoutThink(SubSeq(ts, 1, open - 1) \o SubSeq(ts, e.k, Len(ts)))
             ELSE ts

\* the first block piece after the last signal of ts, or 0
BlockToParse(ts) ==
    IF SignalsAt(ts) = {} THEN 0
    ELSE LET after == {j \in DOMAIN ts : j > Last(SignalsAt(ts)) /\ ts[j] \in BlockTokens}
         IN  IF after = {} THEN 0 ELSE First(after)

OutsideBalanced(ts) == {k \in DOMAIN ts : ~InBalancedThink(ts, k)}

BlockClaimed(ts) ==
    LET signals == SignalsAt(ts) \cap OutsideBalanced(ts)
    IN  IF signals = {} THEN 0
        ELSE LET after == {j \in OutsideBalanced(ts) :
                              j > Last(signals) /\ ts[j] \in BlockTokens}
             IN  IF after = {} THEN 0 ELSE First(after)

\* the calls of one block read on its own
CallsOfBlock(tok) == parse_function_calls_xml(trigger_signal \o tok, trigger_signal)

C31_LastSentinelAsClaimed ==
    fn_pc = "parsed" =>
        \A b \in {BlockClaimed(fn_in)} :
            fn_out = IF b = 0 THEN <<>> ELSE CallsOfBlock(fn_in[b])

(***************************************************************************)
(* C31, amended.  The parser returns no calls when the reply holds no      *)
(* signal.  Otherwise let T' be what remove_think_blocks leaves of the     *)
(* reply: the spans from a first <think> to its matching </think> are cut  *)
(* out, and nothing is cut from a <think> on that is never closed, closed  *)
(* spans inside it included.  The calls returned are those of the first    *)
(* function_calls block after the last signal of T', and of no other       *)
(* block; a signal or a block before that signal, or inside a span that    *)
(* was cut out, has no effect.                                             *)
(***************************************************************************)
C31_LastSentinelRule ==
    fn_pc = "parsed" =>
        /\ SignalsAt(fn_in) = {} => fn_out = <<>>
        /\ \A c \in {WithoutThink(fn_in)} : \A b \in {BlockToParse(c)} :
               /\ fn_out = IF b = 0 THEN <<>> ELSE CallsOfBlock(c[b])
               /\ b # 0 => NamesOf(CallsOfBlock(c[b])) = TrimmedNames(c[b])

\* an earlier signal with its block, a signal with a block inside a closed
\* think span, and the last signal with the block that is read
C31_Witness ==
    /\ fn_pc = "parsed"
    /\ fn_in = <<trigger_signal, TokMixedBlock, trigger_signal, TokCalls>>
    /\ NamesOf(fn_out) = <<"t", "get_weather">>

\* a signal in a closed span that lies in a span never closed is read
SignalInUnclosedThinkRead ==
    /\ fn_pc = "parsed"
    /\ fn_in = <<TokOpenTwice, trigger_signal, TokCalls, ThinkClose>>
    /\ fn_out # <<>>

(***************************************************************************)
(* format_assistant_tool_calls_for_ai.  A tool call is [name, arguments];  *)
(* arguments is given as what json.loads makes of the arguments string:    *)
(* an object (a function from keys to values, with the order of its keys), *)
(* a text that is no JSON, or a JSON value that is no object.              *)
(***************************************************************************)
RECURSIVE JoinLines(_)
JoinLines(parts) ==
    IF parts = <<>> THEN ""
    ELSE IF Len(parts) = 1 THEN parts[1]
    ELSE parts[1] \o "\n" \o JoinLines(Tail(parts))

\* args_dict: [ok, keys, dict]; a value without items() raises
args_dict_of(arguments) ==
    IF arguments.kind = "object"
    THEN [ok |-> TRUE, keys |-> arguments.keys, dict |-> arguments.dict]
    ELSE IF arguments.kind = "invalid"
    THEN [ok |-> TRUE, keys |-> <<"raw_arguments">>,
          dict |-> ("raw_arguments" :> JStr(arguments.text))]
    ELSE [ok |-> FALSE, keys |-> <<>>, dict |-> <<>>]

\* "<key>json_value</key>" for each item
args_parts(a) ==
    [i \in DOMAIN a.keys |->
        "<" \o a.keys[i] \o ">" \o JsonDumps(a.dict[a.keys[i]]) \o "</" \o a.keys[i] \o ">"]

xml_call(tool_call) ==
    "<function_call>\n<tool>" \o tool_call.name \o "</tool>\n<args>\n"
        \o JoinLines(args_parts(args_dict_of(tool_call.arguments)))
        \o "\n</args>\n</function_call>"

\* [ok, text]
format_assistant_tool_calls_for_ai(tool_calls, signal) ==
    IF \E i \in DOMAIN tool_calls : ~args_dict_of(tool_calls[i].arguments).ok
    THEN [ok |-> FALSE, text |-> ""]
    ELSE [ok |-> TRUE,
          text |-> signal \o "\n<function_calls>\n"
                       \o JoinLines([i \in DOMAIN tool_calls |-> xml_call(tool_calls[i])])
                       \o "\n</function_calls>"]

(***************************************************************************)
(* The formatter and the parser in a row: an assistant message with up to  *)
(* MaxCalls tool calls is rewritten, and the text is parsed.               *)
(***************************************************************************)
MaxCalls == 2

RtKeys == <<"q", "content">>
RtValues == {JInt(1), JStr("Paris"), JStr("a</content>b"), JNull}

KeysIn(K) == SelectSeq(RtKeys, LAMBDA k : k \in K)

ArgInputs ==
    {[kind |-> "object", keys |-> KeysIn(DOMAIN f), dict |-> f] :
        f \in UNION {[K -> RtValues] : K \in SUBSET Range(RtKeys)}}
    \cup {[kind |-> "invalid", text |-> "abc"], [kind |-> "scalar", val |-> JInt(5)]}

ToolCallInputs == [name : Names, arguments : ArgInputs]

RoundTripInit ==
    /\ MapIdle /\ StreamIdle /\ ReqIdle /\ CfgIdle /\ LockIdle
    /\ fn_pc = "given"
    /\ fn_in \in UNION {[1..k -> ToolCallInputs] : k \in 1..MaxCalls}
    /\ fn_text = ""
    /\ fn_out = None

FormatCalls ==
    /\ fn_pc = "given"
    /\ \E r \in {format_assistant_tool_calls_for_ai(fn_in, trigger_signal)} :
          /\ fn_pc' = IF r.ok THEN "formatted" ELSE "raised"
          /\ fn_text' = r.text
    /\ UNCHANGED <<fn_in, fn_out, mapvars, streamvars, reqvars, cfgvars, lockvars>>

ParseFormatted ==
    /\ fn_pc = "formatted"
    /\ fn_pc' = "parsed"
    /\ fn_out' = parse_function_calls_xml(fn_text, trigger_signal)
    /\ UNCHANGED <<fn_in, fn_text, mapvars, streamvars, reqvars, cfgvars, lockvars>>

RoundTripNext == FormatCalls \/ ParseFormatted

SpecRoundTrip == RoundTripInit /\ [][RoundTripNext]_vars

(***************************************************************************)
(* C6. Round trip: the calls parsed from the formatted text are as many as *)
(* the tool calls of the message, with the same names in the same order    *)
(* and with args equal to the decoded arguments.                           *)
(***************************************************************************)
C6_RoundTrip ==
    (fn_pc = "parsed" /\ \A i \in DOMAIN fn_in : fn_in[i].arguments.kind = "object") =>
        /\ Len(fn_out) = Len(fn_in)
        /\ \A i \in DOMAIN fn_in :
              /\ fn_out[i].name = fn_in[i].name
              /\ fn_out[i].args = fn_in[i].arguments.dict

(***************************************************************************)
(* The ID map on its own: stores, gets, sweeps and the clock.               *)
(***************************************************************************)
\* The request path stores the call it has just parsed under a fresh or a
\* known id.
NameOf(id) == IF id % 2 = 1 THEN "get_weather" ELSE "t"

MapInit == MapIdle /\ StreamIdle /\ ReqIdle /\ FnIdle /\ CfgIdle /\ LockIdle

Store == (\E id \in Ids : store(id, NameOf(id), NoArgs)) /\ UNCHANGED <<streamvars, reqvars, fnvars, cfgvars, lockvars>>
Get == (\E id \in Ids : get(id)) /\ UNCHANGED <<streamvars, reqvars, fnvars, cfgvars, lockvars>>
Cleanup == cleanup_expired /\ UNCHANGED <<streamvars, reqvars, fnvars, cfgvars, lockvars>>
Clock == Tick /\ UNCHANGED <<streamvars, reqvars, fnvars, cfgvars, lockvars>>

MapNext == Store \/ Get \/ Cleanup \/ Clock

SpecMap == MapInit /\ [][MapNext]_vars

(***************************************************************************)
(* C7. ID map TTL: a get of an id that was stored and not evicted by the   *)
(* size limit since returns the stored record when the time elapsed since  *)
(* that store is at most ttl_seconds; when it exceeds ttl_seconds the get  *)
(* returns absent and the entry is no longer in the map.                   *)
(***************************************************************************)
C7_GetWithinTtl ==
    map_op.op = "get" =>
        LET id == map_op.id IN
        (h_store[id] # NoRec /\ id \notin h_evicted) =>
            IF map_op.at - h_store[id].at <= TtlSeconds
            THEN map_op.result = h_store[id].rec
            ELSE map_op.result = None /\ id \notin Keys(data)

\* A get answered with the record exactly ttl_seconds after the store.
C7_Witness ==
    /\ map_op.op = "get"
    /\ h_store[map_op.id] # NoRec
    /\ map_op.id \notin h_evicted
    /\ map_op.at - h_store[map_op.id].at = TtlSeconds
    /\ map_op.result # None

\* A get answered absent after expiry, the entry gone.
C7_WitnessExpired ==
    /\ map_op.op = "get"
    /\ h_store[map_op.id] # NoRec
    /\ map_op.id \notin h_evicted
    /\ map_op.at - h_store[map_op.id].at > TtlSeconds
    /\ map_op.result = None

(***************************************************************************)
(* C8. ID map capacity and LRU: the map never holds more than max_size     *)
(* entries; once at least max_size distinct ids were inserted and nothing  *)
(* has expired, exactly max_size entries remain and they are the max_size  *)
(* most recently touched ids (touch: a store or a successful get).         *)
(***************************************************************************)
Inserted == {i \in Ids : h_store[i] # NoRec}
LastTouched(n) ==
    {h_touch[i] : i \in {j \in DOMAIN h_touch : j > Len(h_touch) - n}}

C8_CapacityLru ==
    /\ Len(data) <= MaxSize
    /\ Cardinality(Keys(data)) = Len(data)
    /\ (~h_expiry /\ Cardinality(Inserted) >= MaxSize) =>
           /\ Len(data) = MaxSize
           /\ Keys(data) = LastTouched(MaxSize)

\* More ids than the capacity were inserted, and a successful get has just
\* reordered the survivors.
C8_Witness ==
    /\ ~h_expiry
    /\ Cardinality(Inserted) > MaxSize
    /\ map_op.op = "get"
    /\ map_op.result # None
    /\ Len(data) = MaxSize

(***************************************************************************)
(* C33. store is idempotent on id: a store of an id that is in the map     *)
(* puts the new record in its place, sets its timestamp to the time of the *)
(* store and moves it to the end (most recently used); the map holds as    *)
(* many entries as before, the other entries keep their order, records and *)
(* timestamps, and none is evicted, also when the map is full.             *)
(***************************************************************************)
StoreOf(id) ==
    /\ map_op'.op = "store" /\ map_op'.id = id
    /\ map_op'.at = now /\ now' = now

C33_StoreIdempotent ==
    [][\A id \in Keys(data) :
          StoreOf(id) =>
              /\ Len(data') = Len(data)
              /\ Keys(data') = Keys(data)
              /\ Without(data', id) = Without(data, id)
              /\ data'[Len(data')].id = id
              /\ data'[Len(data')].rec.name = NameOf(id)
              /\ data'[Len(data')].rec.created_at = now
              /\ timestamps' = [timestamps EXCEPT ![id] = now]]_vars

\* the id stored again in a full map, after an entry that is older and is
\* still there
C33_Witness ==
    /\ map_op.op = "store"
    /\ map_op.over
    /\ Len(data) = MaxSize
    /\ data[Len(data)].id = map_op.id
    /\ timestamps[map_op.id] = now
    /\ \E k \in Keys(data) : timestamps[k] < now

(***************************************************************************)
(* C39. A successful get(id) promotes the entry to most recently used but  *)
(* does not extend its lifetime: an entry expires ttl_seconds after its    *)
(* most recent store, however many successful gets happened in between,    *)
(* and an expired entry that has not yet been swept still counts toward    *)
(* max_size for eviction.                                                  *)
(***************************************************************************)
GetOf(id) ==
    /\ map_op'.op = "get" /\ map_op'.id = id
    /\ map_op'.at = now /\ now' = now
    /\ h_store' = h_store

\* a successful get: the record, the entry last, the timestamps as before
GetPromotes(id) ==
    /\ map_op'.result = h_store[id].rec
    /\ data' = Append(Without(data, id), data[Lookup(data, id)])
    /\ timestamps' = timestamps

\* a store of a new id in a full map evicts the entry at the front and
\* nothing else, expired entries in the map or not
StoreEvictsFront(id) ==
    /\ Len(data') = MaxSize
    /\ SubSeq(data', 1, MaxSize - 1) = Tail(data)
    /\ data'[MaxSize].id = id

C39_GetKeepsLifetime ==
    /\ [](\A id \in Keys(data) : timestamps[id] = h_store[id].at)
    /\ [][\A id \in Keys(data) :
            /\ (GetOf(id) /\ now - h_store[id].at <= TtlSeconds) => GetPromotes(id)
            /\ (GetOf(id) /\ now - h_store[id].at > TtlSeconds) =>
                   map_op'.result = None /\ id \notin Keys(data')]_vars
    /\ [][\A id \in Ids \ Keys(data) :
            (StoreOf(id) /\ Len(data) = MaxSize) => StoreEvictsFront(id)]_vars

\* An entry that a get had promoted over a younger one has expired and is
\* still in the map; the store of a new id has evicted the younger entry,
\* which had not expired.
C39_Witness ==
    /\ map_op.op = "store"
    /\ ~map_op.over
    /\ Len(data) = MaxSize
    /\ data[Len(data)].id = map_op.id
    /\ \E a \in Keys(data), b \in h_evicted :
           /\ Expired(timestamps[a], now)
           /\ h_store[b] # NoRec
           /\ h_store[a].at < h_store[b].at
           /\ ~Expired(h_store[b].at, now)

\* A get of an entry answered absent past its lifetime, after a get that
\* had promoted it: it stands behind an entry stored after it.
C39_WitnessExpired ==
    /\ map_op.op = "get"
    /\ map_op.result = None
    /\ h_store[map_op.id] # NoRec
    /\ map_op.id \notin h_evicted
    /\ map_op.id \notin Keys(data)
    /\ h_touch # <<>>
    /\ h_touch[Len(h_touch)] = map_op.id
    /\ \E b \in Keys(data) : h_store[b].at > h_store[map_op.id].at

(***************************************************************************)
(* chat_completions, the unary path: the upstreams are posted to in turn.  *)
(* What an upstream answers is one of                                      *)
(*   status   an HTTP error status; raise_for_status raises               *)
(*   connect  no answer: a connection error or a timeout                   *)
(*   ok       a 2xx answer whose body is                                   *)
(*              "empty"            nothing, or white space                 *)
(*              "not_json"         text that json cannot decode            *)
(*              "json_array"       JSON that is no object, as []           *)
(*              "json_no_choices"  an object without a first choice, as    *)
(*                                 {"choices": []} or {"error": {}}        *)
(*              "completion"       a completion whose first choice has     *)
(*                                 the message content given               *)
(***************************************************************************)
MaxUpstreams == 2

ImmediateCodes == {400, 401, 403}
StatusCodes == ImmediateCodes \cup {404, 429, 500, 503}
JsonBodies == {"json_array", "json_no_choices", "completion"}
\* replies in which the sentinel is followed by no valid function_calls block
UnparsedContents == {trigger_signal \o TokPlain, TokPlain \o trigger_signal \o TokEmptyBlock}
UnaryContents == {TokPlain, trigger_signal \o TokCalls} \cup UnparsedContents

StatusError(code) ==
    [kind |-> "status", code |-> code, body |-> "", content |-> "", finish_reason |-> ""]
ConnectError ==
    [kind |-> "connect", code |-> 0, body |-> "", content |-> "", finish_reason |-> ""]
Answer(body, content) ==
    [kind |-> "ok", code |-> 200, body |-> body, content |-> content,
     finish_reason |-> IF body = "completion" THEN "stop" ELSE ""]
\* a completion the upstream cut at its token limit
Truncated(content) == [Answer("completion", content) EXCEPT !.finish_reason = "length"]

Outcomes ==
    {StatusError(c) : c \in StatusCodes} \cup {ConnectError}
    \cup {Answer(b, "") : b \in {"empty", "not_json", "json_array", "json_no_choices"}}
    \cup {Answer("completion", c) : c \in UnaryContents}
    \cup {Truncated(c) : c \in UnparsedContents}

\* JSONResponse: what the client gets
ErrorResponse(status, code) ==
    [status |-> status, code |-> code, body |-> "", content |-> "",
     tool_calls |-> <<>>, finish_reason |-> ""]
\* a response whose finish_reason is set to "stop" when it has no tool calls
JsonResponseStop(o, content, tool_calls, finish_reason) ==
    [status |-> 200, code |-> "", body |-> o.body, content |-> content,
     tool_calls |-> tool_calls,
     finish_reason |-> IF tool_calls = <<>> THEN "stop" ELSE finish_reason]

JsonResponse(o, content, tool_calls, finish_reason) ==
    [status |-> 200, code |-> "", body |-> o.body, content |-> content,
     tool_calls |-> tool_calls, finish_reason |-> finish_reason]

ClientErrorCode(status) ==
    IF status = 400 THEN "bad_request"
    ELSE IF status = 401 THEN "unauthorized" ELSE "forbidden"

ExhaustedCode(status) ==
    IF status = 429 THEN "rate_limit_exceeded"
    ELSE IF status >= 500 THEN "upstream_error" ELSE "unknown_error"

\* What the try block raises on the answer o, "" when it returns a response.
Raised(o) ==
    IF o.kind = "status" THEN "HTTPStatusError"
    ELSE IF o.kind = "connect" THEN "Exception"
    ELSE IF o.body \in {"empty", "not_json"} THEN "ValueError"
    ELSE IF o.body = "json_array" THEN "Exception"
    ELSE IF o.body = "json_no_choices" /\ has_function_call THEN "Exception"
    ELSE ""

\* The except clauses: the response to return, or None to go on with the
\* next upstream.
OnRaised(o, is_last) ==
    IF Raised(o) = "HTTPStatusError"
    THEN IF o.code \in ImmediateCodes
         THEN ErrorResponse(o.code, ClientErrorCode(o.code))
         ELSE IF ~is_last THEN None
         ELSE ErrorResponse(o.code, ExhaustedCode(o.code))
    ELSE IF ~is_last THEN None
    ELSE IF Raised(o) = "ValueError"
    THEN ErrorResponse(502, "invalid_upstream_response")
    ELSE ErrorResponse(500, "all_upstreams_failed")

\* What a post is sent with: the Authorization choice and the timeout, read
\* from app_config when the post is made.
Headers(idx) ==
    [idx |-> idx, key_passthrough |-> app_config.key_passthrough,
     timeout |-> app_config.timeout, signal |-> GLOBAL_TRIGGER_SIGNAL]

\* One turn of the loop: the post to upstreams[upstream_idx] and all that
\* follows its answer.
PostUpstream ==
    /\ req_pc = "unary"
    /\ upstream_idx < Len(upstreams)
    /\ contacted' = Append(contacted, upstream_idx)
    /\ posted' = Append(posted, Headers(upstream_idx))
    /\ \E o \in {upstreams[upstream_idx + 1]} :
         IF Raised(o) # ""
         THEN \E r \in {OnRaised(o, upstream_idx = Len(upstreams) - 1)} :
                  /\ IF r = None
                     THEN /\ upstream_idx' = upstream_idx + 1
                          /\ UNCHANGED <<response, req_pc>>
                     ELSE /\ response' = r
                          /\ req_pc' = "returned"
                          /\ UNCHANGED upstream_idx
                  /\ UNCHANGED <<data, timestamps, map_op, h_store, h_evicted, h_touch>>
         ELSE \E parsed_tools \in {IF has_function_call
                                   THEN parse_function_calls_xml(o.content,
                                                                 GLOBAL_TRIGGER_SIGNAL)
                                   ELSE <<>>} :
                  /\ req_pc' = "returned"
                  /\ UNCHANGED upstream_idx
                  /\ IF parsed_tools # <<>>
                     THEN /\ FreshIdsLeft(TheMap) >= Len(parsed_tools)
                          /\ \E prep \in {prepare_tool_calls(parsed_tools, 1, TheMap, now)} :
                              /\ SetMap(prep.m)
                              /\ map_op' = [op |-> "store",
                                            id |-> prep.tool_calls[Len(parsed_tools)].id,
                                            result |-> None, at |-> now,
                                            over |-> FALSE]
                              /\ response' = JsonResponse(o, "", prep.tool_calls, "tool_calls")
                     ELSE /\ response' = JsonResponse(o, o.content, <<>>, o.finish_reason)
                          /\ UNCHANGED <<data, timestamps, map_op, h_store, h_evicted,
                                         h_touch>>
    /\ UNCHANGED <<upstreams, has_function_call, processed, dispatched, now, h_expiry,
                   streamvars, fnvars, cfgvars, lockvars>>

UpstreamLists == UNION {[1..k -> Outcomes] : k \in 1..MaxUpstreams}

UnaryInit ==
    /\ MapIdle
    /\ StreamIdle
    /\ FnIdle
    /\ CfgIdle /\ LockIdle
    /\ dispatched = None
    /\ posted = <<>>
    /\ upstreams \in UpstreamLists
    /\ has_function_call \in BOOLEAN
    /\ upstream_idx = 0
    /\ contacted = <<>>
    /\ response = None
    /\ req_pc = "unary"
    /\ processed = None

UnaryNext == PostUpstream

SpecUnary == UnaryInit /\ [][UnaryNext]_vars

(***************************************************************************)
(* C10. Unary failover policy: the upstreams are attempted in the order of *)
(* the list, each at most once; the first one that answers 2xx with a      *)
(* non-empty JSON body ends the loop and its completion is returned; a     *)
(* 400, 401 or 403 is surfaced at once and no later upstream is contacted; *)
(* 429, any status >= 500, a connection error and an empty or non-JSON     *)
(* body advance to the next upstream; an error is returned only when the   *)
(* list is exhausted, and it reflects the last upstream's failure.         *)
(***************************************************************************)
Advances(o) ==
    \/ o.kind = "status" /\ (o.code = 429 \/ o.code >= 500)
    \/ o.kind = "connect"
    \/ o.kind = "ok" /\ o.body \in {"empty", "not_json"}

Reflects(r, o) ==
    IF o.kind = "status" THEN r.status = o.code
    ELSE IF o.kind = "connect" THEN r.status = 500
    ELSE r.status = 502

InListOrder == \A k \in DOMAIN contacted : contacted[k] = k - 1

\* the answer of the upstream contacted last
LastAnswer == upstreams[contacted[Len(contacted)] + 1]

C10_UnaryFailoverPolicy ==
    /\ InListOrder
    /\ \A k \in DOMAIN contacted :
         \A o \in {upstreams[contacted[k] + 1]} :
           /\ (o.kind = "ok" /\ o.body \in JsonBodies) =>
                  /\ k = Len(contacted)
                  /\ req_pc = "returned"
                  /\ response.status = 200
                  /\ response.body = o.body
           /\ (o.kind = "status" /\ o.code \in ImmediateCodes) =>
                  /\ k = Len(contacted)
                  /\ req_pc = "returned"
                  /\ response.status = o.code
           /\ (Advances(o) /\ contacted[k] < Len(upstreams) - 1) =>
                  /\ upstream_idx > contacted[k]
                  /\ req_pc = "returned" => k < Len(contacted)
    /\ (req_pc = "returned" /\ response.status >= 400) =>
           \/ LastAnswer.kind = "status" /\ LastAnswer.code \in ImmediateCodes
           \/ /\ Len(contacted) = Len(upstreams)
              /\ Reflects(response, LastAnswer)

\* The policy for the answers that the handler takes as the claim says: all
\* of them but a 2xx JSON body without a first choice under function
\* calling, and a 2xx JSON body that is no object.
Mishandled(o) ==
    /\ o.kind = "ok"
    /\ o.body = "json_array" \/ (o.body = "json_no_choices" /\ has_function_call)

UnaryFailoverForCompletions ==
    (\A i \in DOMAIN upstreams : ~Mishandled(upstreams[i])) => C10_UnaryFailoverPolicy

\* A 2xx JSON body has been taken for a failure: the next upstream was
\* contacted after it.
UnaryFailoverPastJson ==
    \E k \in DOMAIN contacted :
        /\ Mishandled(upstreams[contacted[k] + 1])
        /\ k < Len(contacted)

(***************************************************************************)
(* A conversation: requests to chat_completions, one at a time, unary or   *)
(* streaming, with function calling on.  Each request carries the message  *)
(* under observation, which preprocess_messages rewrites before the        *)
(* upstream is contacted; the upstream's reply may hold tool calls, whose  *)
(* ids the client may send back in a later request.                        *)
(***************************************************************************)
ToolContents == {"", "sunny"}

UserMessage == [role |-> "user", tool_call_id |-> 0, content |-> "Hi"]
ToolMessage(id, c) == [role |-> "tool", tool_call_id |-> id, content |-> c]
\* the client sends back the ids it was given
ConvMessages ==
    {UserMessage}
    \cup {ToolMessage(id, c) : id \in {i \in Ids : h_store[i] # NoRec}, c \in ToolContents}

\* format_tool_result_for_ai, given what get_tool_call_mapping returned
format_tool_result_for_ai(tool_info, result_content) ==
    IF tool_info = None
    THEN "Tool execution result:\n<tool_result>\n" \o result_content \o "\n</tool_result>"
    ELSE "Tool execution result:\n- Tool name: " \o tool_info.name
         \o "\n- Execution result:\n<tool_result>\n" \o result_content
         \o "\n</tool_result>"

\* the message with the keys it goes on with: tool_calls only where it has it
Kept(message) ==
    IF "tool_calls" \in DOMAIN message
    THEN [role |-> message.role, content |-> message.content,
          tool_calls |-> message.tool_calls]
    ELSE [role |-> message.role, content |-> message.content]

\* preprocess_messages on the message: a tool message with an id and a
\* content that are truthy becomes a user message, any other tool message
\* is skipped, an assistant message with a non-empty tool_calls gets the
\* calls written into its content, a developer message becomes a system
\* message when the configuration says so, any other message is kept as it
\* is.  A tool_call_id of 0 stands for a message without one.
\* evicted tells whether the size limit had evicted the id when the message
\* arrived.
preprocess_messages(message) ==
    IF message.role = "tool"
    THEN IF message.tool_call_id # 0 /\ message.content # ""
         THEN /\ get(message.tool_call_id)
              /\ processed' =
                     [message |-> message, at |-> now,
                      evicted |-> message.tool_call_id \in h_evicted,
                      out |-> <<[role |-> "user",
                                 content |-> format_tool_result_for_ai(
                                                 map_op'.result, message.content)]>>]
         ELSE /\ processed' =
                     [message |-> message, at |-> now,
                      evicted |-> message.tool_call_id \in h_evicted,
                      out |-> <<>>]
              /\ UNCHANGED <<data, timestamps, now, map_op, h_store, h_evicted,
                             h_touch, h_expiry>>
    ELSE IF /\ message.role = "assistant"
            /\ "tool_calls" \in DOMAIN message
            /\ message.tool_calls # <<>>
    THEN /\ \E formatted \in {format_assistant_tool_calls_for_ai(message.tool_calls,
                                                                GLOBAL_TRIGGER_SIGNAL)} :
              /\ formatted.ok
              /\ processed' =
                     [message |-> message, at |-> now, evicted |-> FALSE,
                      out |-> <<[role |-> "assistant",
                                 content |-> Strip(message.content \o "\n"
                                                       \o formatted.text)]>>]
         /\ UNCHANGED <<data, timestamps, now, map_op, h_store, h_evicted,
                        h_touch, h_expiry>>
    ELSE IF message.role = "developer" /\ app_config.convert_developer_to_system
    THEN /\ processed' = [message |-> message, at |-> now, evicted |-> FALSE,
                          out |-> <<[Kept(message) EXCEPT !.role = "system"]>>]
         /\ UNCHANGED <<data, timestamps, now, map_op, h_store, h_evicted,
                        h_touch, h_expiry>>
    ELSE /\ processed' = [message |-> message, at |-> now, evicted |-> FALSE,
                          out |-> <<Kept(message)>>]
         /\ UNCHANGED <<data, timestamps, now, map_op, h_store, h_evicted,
                        h_touch, h_expiry>>

\* every reply calls tools: two calls, or one after some text
ConvReplies == {<<trigger_signal, TokCalls>>, <<TokPlain, trigger_signal, TokOneCall>>}

NoRequest == req_pc # "unary" /\ proxy_pc # "streaming"

\* what the request reads from the globals before its first await
Dispatched(model_name, draw) ==
    [config |-> app_config, signal |-> GLOBAL_TRIGGER_SIGNAL,
     route |-> find_upstream(model_name, draw)]


\* A unary request arrives; its one upstream will answer with a completion.
BeginUnary ==
    /\ NoRequest
    /\ \E message \in ConvMessages : preprocess_messages(message)
    /\ \E reply \in ConvReplies : upstreams' = <<Answer("completion", Concat(reply))>>
    /\ has_function_call' = TRUE
    /\ upstream_idx' = 0
    /\ contacted' = <<>>
    /\ response' = None
    /\ req_pc' = "unary"
    /\ dispatched' = Dispatched("gpt-4", 0)
    /\ posted' = <<>>
    /\ upstream_tokens' = <<>>
    /\ upstream_text' = ""
    /\ upstream_pos' = 0
    /\ detector' = NewDetector
    /\ proxy_pc' = "idle"
    /\ client' = <<>>
    /\ stream_aborted' = FALSE
    /\ last_ret' = None
    /\ fault' = None
    /\ UNCHANGED <<fnvars, cfgvars, lockvars>>

\* A streaming request arrives; the upstream will stream a reply.
BeginStream ==
    /\ NoRequest
    /\ \E message \in ConvMessages : preprocess_messages(message)
    /\ upstream_tokens' \in ConvReplies
    /\ upstream_text' = Concat(upstream_tokens')
    /\ upstream_pos' = 0
    /\ detector' = NewDetector
    /\ proxy_pc' = "streaming"
    /\ client' = <<>>
    /\ stream_aborted' = FALSE
    /\ last_ret' = None
    /\ fault' = None
    /\ upstreams' = <<>>
    /\ has_function_call' = TRUE
    /\ upstream_idx' = 0
    /\ contacted' = <<>>
    /\ response' = None
    /\ req_pc' = "stream"
    /\ dispatched' = Dispatched("gpt-4", 0)
    /\ posted' = <<>>
    /\ UNCHANGED <<fnvars, cfgvars, lockvars>>

\* Time passes between two requests.
Wait == NoRequest /\ Clock

ConvInit == MapIdle /\ StreamIdle /\ ReqIdle /\ FnIdle /\ CfgIdle /\ LockIdle

ConvNext ==
    \/ BeginUnary
    \/ PostUpstream
    \/ BeginStream
    \/ UpstreamDelta
    \/ UpstreamEmptyDelta
    \/ UpstreamEnd
    \/ Wait

SpecConversation == ConvInit /\ [][ConvNext]_vars

\* the tool calls the client has been handed by the request in progress
Delivered ==
    {response.tool_calls[i] : i \in (IF response = None THEN {}
                                     ELSE DOMAIN response.tool_calls)}
    \cup UNION {{client[j].tool_calls[i] : i \in DOMAIN client[j].tool_calls} :
                    j \in {n \in DOMAIN client : client[n].kind = "tool_calls"}}

StoredAsDelivered ==
    \A tc \in Delivered :
        /\ h_store[tc.id] # NoRec
        /\ h_store[tc.id].rec.name = tc.name
        /\ h_store[tc.id].rec.args = tc.arguments

\* the tool message just processed carries an id that was stored, was not
\* evicted and is within its TTL
ToolResultDue ==
    /\ processed # None
    /\ processed.message.role = "tool"
    /\ ~processed.evicted
    /\ processed.at - h_store[processed.message.tool_call_id].at <= TtlSeconds

RewrittenWithName ==
    /\ Len(processed.out) = 1
    /\ processed.out[1].role = "user"
    /\ StartsWithAt(processed.out[1].content, 0,
                    "Tool execution result:\n- Tool name: "
                    \o h_store[processed.message.tool_call_id].rec.name \o "\n")

(***************************************************************************)
(* C9. Tool-result round trip: every tool-call id delivered to a client,   *)
(* in a unary response or in a synthesized streaming event, has been       *)
(* stored in the ID map with the parsed name and args; and a later request *)
(* carrying a tool message with that id and a content c, within TTL and    *)
(* without eviction, is rewritten into a user message whose content begins *)
(* with "Tool execution result:" and the line "- Tool name: <name>" for    *)
(* the stored name.                                                        *)
(***************************************************************************)
C9_ToolResultRoundTrip ==
    /\ StoredAsDelivered
    /\ ToolResultDue => RewrittenWithName

\* The same for the tool messages whose content is not empty.
ToolResultRewrittenWhenNonEmpty ==
    /\ StoredAsDelivered
    /\ (ToolResultDue /\ processed.message.content # "") => RewrittenWithName

\* A tool message with a delivered id, in time, came with an empty content
\* and was skipped.
ToolResultSkipped ==
    /\ ToolResultDue
    /\ processed.message.content = ""
    /\ processed.out = <<>>

(***************************************************************************)
(* json.dumps and json.loads of the arguments of a tool call: an object of *)
(* scalars, written '{"k": v, "k2": v2}'.                                  *)
(***************************************************************************)
\* the keys of a dict in some order
RECURSIVE KeySeq(_)
KeySeq(K) ==
    IF K = {} THEN <<>>
    ELSE LET k == CHOOSE x \in K : TRUE IN <<k>> \o KeySeq(K \ {k})

RECURSIVE DumpItems(_, _)
DumpItems(keys, dict) ==
    IF keys = <<>> THEN ""
    ELSE "\"" \o EncodeStrBody(Head(keys)) \o "\": " \o JsonDumps(dict[Head(keys)])
         \o (IF Len(keys) > 1 THEN ", " ELSE "") \o DumpItems(Tail(keys), dict)

\* json.dumps(tool["args"])
json_dumps(dict) == "{" \o DumpItems(KeySeq(DOMAIN dict), dict) \o "}"

Decoded(kind, dict, val) == [kind |-> kind, dict |-> dict, val |-> val]
NotJson == Decoded("invalid", <<>>, JNull)

\* the first index from i that holds no white space
RECURSIVE SkipSpace(_, _)
SkipSpace(s, i) ==
    IF i < Len(s) /\ IsSpace(Slice(s, i, i + 1)) THEN SkipSpace(s, i + 1) ELSE i

\* the index of the quote that closes the string whose body starts at i
RECURSIVE StringEnd(_, _)
StringEnd(s, i) ==
    IF i >= Len(s) THEN -1
    ELSE IF Slice(s, i, i + 1) = "\\" THEN StringEnd(s, i + 2)
    ELSE IF Slice(s, i, i + 1) = "\"" THEN i
    ELSE StringEnd(s, i + 1)

\* the end of the scalar that starts at i: the next , or } or the end
RECURSIVE ScalarEnd(_, _)
ScalarEnd(s, i) ==
    IF i >= Len(s) \/ Slice(s, i, i + 1) \in {",", "}"} THEN i ELSE ScalarEnd(s, i + 1)

\* the members of an object from i on: "key": value, then , or }
RECURSIVE Members(_, _, _)

\* after the value val of key, n the next index that holds no white space
MemberEnd(s, key, val, n, dict) ==
    IF ~val.ok THEN NotJson
    ELSE IF Slice(s, n, n + 1) = "," THEN Members(s, n + 1, (key :> val.val) @@ dict)
    ELSE IF Slice(s, n, n + 1) = "}" /\ SkipSpace(s, n + 1) = Len(s)
    THEN Decoded("object", (key :> val.val) @@ dict, JNull)
    ELSE NotJson

\* the value of key is s[v0:v1]
MemberValue(s, key, v0, v1, dict) ==
    IF v1 = -1 THEN NotJson
    ELSE MemberEnd(s, key, JsonLoads(Slice(s, v0, v1)), SkipSpace(s, v1), dict)

AfterQuote(e) == IF e = -1 THEN -1 ELSE e + 1

\* the value starts at v0: a string, or a scalar up to the next , or }
MemberValueAt(s, key, v0, dict) ==
    MemberValue(s, key, v0,
                IF Slice(s, v0, v0 + 1) = "\"" THEN AfterQuote(StringEnd(s, v0 + 1))
                ELSE ScalarEnd(s, v0),
                dict)

\* after the key, c the next index that holds no white space
MemberColon(s, key, c, dict) ==
    IF ~key.ok \/ Slice(s, c, c + 1) # ":" THEN NotJson
    ELSE MemberValueAt(s, key.s, SkipSpace(s, c + 1), dict)

\* the key is the string s[k0 + 1:k1]
MemberKey(s, k0, k1, dict) ==
    IF k1 = -1 THEN NotJson
    ELSE MemberColon(s, DecodeStrBody(Slice(s, k0 + 1, k1), ""), SkipSpace(s, k1 + 1), dict)

MemberAt(s, k0, dict) ==
    IF Slice(s, k0, k0 + 1) = "\"" THEN MemberKey(s, k0, StringEnd(s, k0 + 1), dict)
    ELSE NotJson

Members(s, i, dict) == MemberAt(s, SkipSpace(s, i), dict)

\* json.loads(arguments): an object, another JSON value, or JSONDecodeError
json_loads(s) ==
    LET b == SkipSpace(s, 0) IN
    IF Slice(s, b, b + 1) = "{"
    THEN LET e == SkipSpace(s, b + 1) IN
         IF Slice(s, e, e + 1) = "}"
         THEN (IF SkipSpace(s, e + 1) = Len(s) THEN Decoded("object", <<>>, JNull)
               ELSE NotJson)
         ELSE Members(s, b + 1, <<>>)
    ELSE LET r == JsonLoads(s) IN
         IF r.ok THEN Decoded("other", <<>>, r.val) ELSE NotJson

(***************************************************************************)
(* anthropic_messages, the non-streaming path: one post, to upstreams[0],  *)
(* and the translation of its answer.  A JSON object without a first       *)
(* choice is {"choices": []}, on which [0] raises, or an object without    *)
(* "choices", which translates into an empty message.                      *)
(***************************************************************************)
AnthropicError(status) ==
    [status |-> status, code |-> "api_error", body |-> "", content |-> "",
     tool_calls |-> <<>>, finish_reason |-> ""]

\* a tool call of the OpenAI dialect, its arguments a JSON text
FunctionCall(id, type, name, arguments) ==
    [id |-> id, type |-> type, name |-> name, arguments |-> arguments]

\* what the handler makes of the parsed calls: "arguments": json.dumps(tool["args"])
RECURSIVE DumpedCalls(_)
DumpedCalls(tool_calls) ==
    IF tool_calls = <<>> THEN <<>>
    ELSE <<FunctionCall(Head(tool_calls).id, "function", Head(tool_calls).name,
                        json_dumps(Head(tool_calls).arguments))>>
             \o DumpedCalls(Tail(tool_calls))

TextContent(text) == [type |-> "text", text |-> text]

\* the arguments left as they came
ArgsNotDecoded(arguments) == Decoded("other", <<>>, JStr(arguments))

\* args = json.loads(arguments), {} on JSONDecodeError
ArgsOf(arguments) ==
    LET d == json_loads(arguments)
    IN  IF d.kind = "invalid" THEN Decoded("object", <<>>, JNull) ELSE d

ToolUse(tool_call) ==
    [type |-> "tool_use", id |-> tool_call.id, name |-> tool_call.name,
     input |-> ArgsOf(tool_call.arguments)]

RECURSIVE ToolUses(_)
ToolUses(tool_calls) ==
    IF tool_calls = <<>> THEN <<>>
    ELSE (IF Head(tool_calls).type = "function" THEN <<ToolUse(Head(tool_calls))>>
          ELSE <<>>) \o ToolUses(Tail(tool_calls))

\* the content array
ContentOf(content, tool_calls) ==
    LET blocks == (IF content # "" THEN <<TextContent(content)>> ELSE <<>>)
                      \o ToolUses(tool_calls)
    IN  IF blocks = <<>> THEN <<TextContent("")>> ELSE blocks

\* openai_to_anthropic_response: text and tool_use blocks, the stop_reason;
\* content "" stands for a content that is absent, null or empty
openai_to_anthropic_response(o, content, tool_calls, finish_reason) ==
    [status |-> 200, code |-> "", body |-> o.body,
     content |-> ContentOf(content, tool_calls),
     stop_reason |-> IF finish_reason = "tool_calls" THEN "tool_use"
                     ELSE IF finish_reason = "stop" THEN "end_turn"
                     ELSE IF finish_reason = "length" THEN "max_tokens"
                     ELSE IF finish_reason = "" THEN "end_turn"
                     ELSE finish_reason]

\* The responses the except clauses give to the answer o; {} when the try
\* block runs to its end.
AnthropicRaised(o) ==
    IF o.kind = "status" THEN {AnthropicError(o.code)}
    ELSE IF o.kind = "connect" THEN {AnthropicError(500)}
    ELSE IF o.body \in {"empty", "not_json", "json_array"} THEN {AnthropicError(500)}
    ELSE IF o.body = "json_no_choices"
    THEN {AnthropicError(500), openai_to_anthropic_response(o, "", <<>>, "")}
    ELSE {}

AnthropicPost ==
    /\ req_pc = "anthropic"
    /\ contacted' = Append(contacted, 0)
    /\ posted' = Append(posted, Headers(0))
    /\ req_pc' = "returned"
    /\ \E o \in {upstreams[1]} :
         IF AnthropicRaised(o) # {}
         THEN /\ response' \in AnthropicRaised(o)
              /\ UNCHANGED <<data, timestamps, map_op, h_store, h_evicted, h_touch>>
         ELSE \E parsed_tools \in {IF /\ has_function_call
                                      /\ Contains(o.content, GLOBAL_TRIGGER_SIGNAL)
                                   THEN parse_function_calls_xml(o.content,
                                                                 GLOBAL_TRIGGER_SIGNAL)
                                   ELSE <<>>} :
                  IF parsed_tools # <<>>
                  THEN /\ FreshIdsLeft(TheMap) >= Len(parsed_tools)
                       /\ \E prep \in {prepare_tool_calls(parsed_tools, 1, TheMap, now)} :
                            /\ SetMap(prep.m)
                            /\ map_op' = [op |-> "store",
                                          id |-> prep.tool_calls[Len(parsed_tools)].id,
                                          result |-> None, at |-> now,
                                          over |-> FALSE]
                            /\ response' = openai_to_anthropic_response(
                                               o, "", DumpedCalls(prep.tool_calls),
                                               "tool_calls")
                  ELSE /\ response' = openai_to_anthropic_response(o, o.content, <<>>, o.finish_reason)
                       /\ UNCHANGED <<data, timestamps, map_op, h_store, h_evicted, h_touch>>
    /\ UNCHANGED <<upstreams, upstream_idx, has_function_call, processed, dispatched,
                   now, h_expiry, streamvars, fnvars, cfgvars, lockvars>>

AnthropicInit ==
    /\ MapIdle
    /\ StreamIdle
    /\ FnIdle
    /\ CfgIdle /\ LockIdle
    /\ dispatched = None
    /\ posted = <<>>
    /\ upstreams \in UpstreamLists
    /\ has_function_call \in BOOLEAN
    /\ upstream_idx = 0
    /\ contacted = <<>>
    /\ response = None
    /\ req_pc = "anthropic"
    /\ processed = None

AnthropicNext == AnthropicPost

SpecAnthropic == AnthropicInit /\ [][AnthropicNext]_vars

(***************************************************************************)
(* C11. Unary failover on the Anthropic dialect: when the first upstream   *)
(* fails transiently (429, status >= 500, connection failure, empty or     *)
(* non-JSON body) the request is retried against the next upstream; the    *)
(* client receives the translated completion of the first upstream that    *)
(* succeeds; an error is returned only when all upstreams are exhausted.   *)
(***************************************************************************)
\* the upstreams up to the first whose failure is not transient
TransientPrefix ==
    {i \in DOMAIN upstreams : \A j \in 1..(i - 1) : Advances(upstreams[j])}

C11_AnthropicFailover ==
    req_pc = "returned" =>
        /\ \A i \in TransientPrefix : (i - 1) \in Range(contacted)
        /\ \A i \in TransientPrefix :
               upstreams[i].body = "completion" =>
                   /\ response.status = 200
                   /\ contacted[Len(contacted)] = i - 1
        /\ (response.status >= 400 /\ Advances(upstreams[1])) =>
               Len(contacted) = Len(upstreams)

\* The first upstream failed transiently, a second one was there, and the
\* client has the first one's error.
AnthropicNoFailover ==
    /\ req_pc = "returned"
    /\ Len(upstreams) > 1
    /\ Advances(upstreams[1])
    /\ upstreams[2].body = "completion"
    /\ contacted = <<0>>
    /\ response.status >= 400

\* With one upstream the claimed policy is what the handler does.
AnthropicSingleUpstream ==
    Len(upstreams) = 1 => C11_AnthropicFailover

(***************************************************************************)
(* The router on its own: a valid configuration of up to MaxServices       *)
(* services is loaded and find_upstream is called for a model name.        *)
(***************************************************************************)
MaxServices == 2

Priorities == {1, 2}
ApiKeys == {"", " ", "k"}
ModelLists == {<<>>, <<"gpt-4">>, <<"smart:gpt-4">>, <<"smart:gpt-4", "smart:claude">>}
ModelNames == {"gpt-4", "smart", "smart:claude", "other"}
ServiceNames == <<"openai", "s2", "s3", "s4">>

ServiceLists ==
    UNION {{[i \in 1..k |-> Service(ServiceNames[i], pr[i], key[i], ml[i])] :
                pr \in [1..k -> Priorities], key \in [1..k -> ApiKeys],
                ml \in [1..k -> ModelLists]} : k \in 1..MaxServices}

RouterConfigs ==
    {c \in {Config(sl, mp, FALSE, TRUE, 180, <<"ck">>) :
                sl \in ServiceLists, mp \in BOOLEAN} : ValidConfig(c)}

RouterInit ==
    /\ LockIdle /\ MapIdle /\ StreamIdle /\ ReqIdle
    /\ \E c \in RouterConfigs : Loaded(c, trigger_signal) /\ config_file = c
    /\ admin_reply = None
    /\ fn_pc = "given"
    /\ fn_in \in [model_name : ModelNames]
    /\ fn_text = ""
    /\ fn_out = None

Route ==
    /\ fn_pc = "given"
    /\ fn_pc' = "routed"
    /\ \E draw \in Draws(fn_in.model_name) :
           fn_out' = [draw |-> draw, ret |-> find_upstream(fn_in.model_name, draw)]
    /\ UNCHANGED <<fn_in, fn_text, mapvars, streamvars, reqvars, cfgvars, lockvars>>

RouterNext == Route

SpecRouter == RouterInit /\ [][RouterNext]_vars

NonIncreasing(services) ==
    \A i, j \in DOMAIN services : i < j => services[i].priority >= services[j].priority

\* the entries "M:model" of the configuration
AliasMembers(M) ==
    {e \in Range(AllEntries(app_config)) : StartsWithAt(e, 0, M \o ":")}

AliasChoice(M) ==
    /\ M \in DOMAIN ALIAS_MAPPING
    /\ Range(ALIAS_MAPPING[M]) = AliasMembers(M)
    /\ fn_out.draw \in 0..(Len(ALIAS_MAPPING[M]) - 1)
    /\ fn_out.ret.raised \/ fn_out.ret.chosen = ALIAS_MAPPING[M][fn_out.draw + 1]
    /\ ~fn_out.ret.raised =>
           /\ fn_out.ret.chosen \in AliasMembers(M)
           /\ fn_out.ret.actual_model_name = From(fn_out.ret.chosen, Len(M) + 1)

(***************************************************************************)
(* C12 as stated. Router ordering and alias choice: for every model name M *)
(* and configuration the list find_upstream(M) returns is in               *)
(* non-increasing priority; when M is an alias key the chosen entry E is a *)
(* member of alias_mapping[M], every member can be chosen, and the model   *)
(* name sent upstream is E with its "alias:" prefix stripped.              *)
(***************************************************************************)
C12_RouterAsClaimed ==
    fn_pc = "routed" =>
        /\ ~fn_out.ret.raised => NonIncreasing(fn_out.ret.services)
        /\ AliasMembers(fn_in.model_name) # {} => AliasChoice(fn_in.model_name)

(***************************************************************************)
(* C12, amended.  The list is in non-increasing priority in both modes;    *)
(* in default routing (model_passthrough off), when M is an alias key, the *)
(* entry chosen is the member of alias_mapping[M] at the index drawn, any  *)
(* index can be drawn, and the model name sent upstream is the entry       *)
(* without its "alias:" prefix.  With model_passthrough on no entry is     *)
(* chosen and M itself is sent upstream.                                   *)
(***************************************************************************)
C12_RouterOrderingAndAlias ==
    fn_pc = "routed" =>
        /\ ~fn_out.ret.raised => NonIncreasing(fn_out.ret.services)
        /\ (AliasMembers(fn_in.model_name) # {} /\ ~app_config.model_passthrough) =>
               AliasChoice(fn_in.model_name)
        /\ (app_config.model_passthrough /\ ~fn_out.ret.raised) =>
               fn_out.ret.actual_model_name = fn_in.model_name

\* An alias with two distinct members was resolved to the second one, and
\* two services of different priority serve it.
C12_Witness ==
    /\ fn_pc = "routed"
    /\ ~app_config.model_passthrough
    /\ Cardinality(AliasMembers(fn_in.model_name)) = 2
    /\ fn_out.draw = 1
    /\ ~fn_out.ret.raised
    /\ fn_out.ret.chosen = "smart:claude"
    /\ fn_out.ret.actual_model_name = "claude"
    /\ Len(fn_out.ret.services) = 2
    /\ fn_out.ret.services[1].priority > fn_out.ret.services[2].priority

\* the three ways find_upstream answers
Passthrough == app_config.model_passthrough
ModelFound ==
    /\ ~app_config.model_passthrough
    /\ fn_out.ret.chosen \in DOMAIN MODEL_TO_SERVICE_MAPPING
DefaultFallback ==
    /\ ~app_config.model_passthrough
    /\ fn_in.model_name \notin DOMAIN ALIAS_MAPPING
    /\ fn_in.model_name \notin DOMAIN MODEL_TO_SERVICE_MAPPING

(***************************************************************************)
(* C37.  find_upstream either fails with the 500 error or returns a        *)
(* non-empty list in which every upstream has a non-empty api_key: in      *)
(* model-passthrough mode, in default routing when the model is found, and *)
(* in the fallback to the default service for an unknown model.            *)
(***************************************************************************)
C37_UpstreamsHaveKeys ==
    fn_pc = "routed" =>
        \/ fn_out.ret.raised
        \/ /\ fn_out.ret.services # <<>>
           /\ \A i \in DOMAIN fn_out.ret.services : fn_out.ret.services[i].api_key # ""

\* An unknown model was routed to the default service while another service
\* of the configuration has no key.
C37_Witness ==
    /\ fn_pc = "routed"
    /\ DefaultFallback
    /\ ~fn_out.ret.raised
    /\ fn_out.ret.services = <<DEFAULT_SERVICE>>
    /\ \E i \in DOMAIN app_config.upstream_services :
           app_config.upstream_services[i].api_key = ""

\* In passthrough mode a service without a key was left out of the list.
C37_WitnessPassthrough ==
    /\ fn_pc = "routed"
    /\ Passthrough
    /\ ~fn_out.ret.raised
    /\ Len(fn_out.ret.services) < Len(app_config.upstream_services)

\* The model was found and one of its services was left out for its key.
C37_WitnessFound ==
    /\ fn_pc = "routed"
    /\ ModelFound
    /\ ~fn_out.ret.raised
    /\ Len(fn_out.ret.services) < Len(MODEL_TO_SERVICE_MAPPING[fn_out.ret.chosen])

\* Each mode can also end in the error.
C37_WitnessError ==
    /\ fn_pc = "routed"
    /\ DefaultFallback
    /\ fn_out.ret.raised

\* The fallback tests the key as it is, the other two modes test it
\* stripped: a default service whose key is blank is returned.
BlankKeyDefaultReturned ==
    /\ fn_pc = "routed"
    /\ DefaultFallback
    /\ ~fn_out.ret.raised
    /\ Strip(fn_out.ret.services[1].api_key) = ""

(***************************************************************************)
(* Requests and reloads.  The admin's update_config may run whenever a     *)
(* request is suspended on its upstream call.  A request is dispatched     *)
(* (chat_completions up to its first post), then posts to its candidates   *)
(* in turn.  The upstream's model answers with the sentinel the injected   *)
(* prompt told it, followed by a valid function_calls block, or the        *)
(* upstream fails with 429.                                                *)
(***************************************************************************)
ConfigA ==
    Config(<<Service("openai", 2, "k", <<"gpt-4">>), Service("s2", 1, "k", <<"gpt-4">>)>>,
           FALSE, FALSE, TRUE, 180, <<"ck">>)
ConfigB ==
    Config(<<Service("s2", 1, "k", <<"gpt-4">>)>>, FALSE, TRUE, FALSE, 30, <<"ck", "ck2">>)
ConfigNoServices == Config(<<>>, FALSE, TRUE, TRUE, 30, <<"ck">>)
ConfigNoKeys ==
    Config(<<Service("s2", 1, "k", <<"gpt-4">>)>>, FALSE, TRUE, FALSE, 30, <<>>)
ConfigAliasClash ==
    Config(<<Service("s2", 1, "k", <<"smart:gpt-4", "smart">>)>>, FALSE, FALSE, TRUE, 180,
           <<"ck">>)

ConfigUpdates == {ConfigA, ConfigB, ConfigNoServices, ConfigNoKeys, ConfigAliasClash}

AdminReply(status, config_data) == [status |-> status, config_data |-> config_data]

\* update_config that writes the file before it validates
UpdateConfigWriteFirst(config_data) ==
    /\ config_file' = config_data
    /\ IF ValidConfig(config_data)
       THEN /\ \E signal \in Signals : load_runtime_config(config_data, signal)
            /\ admin_reply' = AdminReply(200, config_data)
       ELSE /\ admin_reply' = AdminReply(400, config_data)
            /\ UNCHANGED <<app_config, MODEL_TO_SERVICE_MAPPING, ALIAS_MAPPING,
                           DEFAULT_SERVICE, ALLOWED_CLIENT_KEYS, GLOBAL_TRIGGER_SIGNAL>>

\* update_config: validate, write the file, reload; 400 when the validation
\* raises
update_config(config_data) ==
    IF ValidConfig(config_data)
    THEN /\ config_file' = config_data
         /\ \E signal \in Signals : load_runtime_config(config_data, signal)
         /\ admin_reply' = AdminReply(200, config_data)
    ELSE /\ admin_reply' = AdminReply(400, config_data)
         /\ UNCHANGED <<app_config, config_file, MODEL_TO_SERVICE_MAPPING, ALIAS_MAPPING,
                        DEFAULT_SERVICE, ALLOWED_CLIENT_KEYS, GLOBAL_TRIGGER_SIGNAL>>

UpdateConfig ==
    /\ \E config_data \in ConfigUpdates : update_config(config_data)
    /\ UNCHANGED <<mapvars, streamvars, reqvars, fnvars, lockvars>>

\* what the candidates answer to a prompt that names signal
ReloadAnswers(signal, fc) ==
    {StatusError(429),
     Answer("completion", IF fc THEN signal \o TokOneCall ELSE TokPlain)}

\* chat_completions up to the loop: the route, the function-calling flag and
\* the prompt are made from the globals of the moment
Dispatch ==
    /\ req_pc \in {"idle", "returned"}
    /\ \E d \in {Dispatched("gpt-4", 0)} :
         /\ ~d.route.raised
         /\ dispatched' = d
         /\ has_function_call' = app_config.enable_function_calling
         /\ upstreams' \in [1..Len(d.route.services) ->
                               ReloadAnswers(GLOBAL_TRIGGER_SIGNAL,
                                             app_config.enable_function_calling)]
    /\ upstream_idx' = 0
    /\ contacted' = <<>>
    /\ posted' = <<>>
    /\ response' = None
    /\ req_pc' = "unary"
    /\ processed' = None
    /\ UNCHANGED <<mapvars, streamvars, fnvars, cfgvars, lockvars>>

ReloadInit ==
    /\ LockIdle /\ MapIdle /\ StreamIdle /\ ReqIdle /\ FnIdle
    /\ Loaded(ConfigA, trigger_signal)
    /\ config_file = ConfigA
    /\ admin_reply = None

ReloadNext == Dispatch \/ PostUpstream \/ UpdateConfig

SpecReload == ReloadInit /\ [][ReloadNext]_vars

\* the answer the request was returned on
ReturnedOn == upstreams[contacted[Len(contacted)] + 1]

(***************************************************************************)
(* C13. Sentinel stability across reload: a request uses the sentinel it   *)
(* saw at dispatch for every step, also when a reload draws a new sentinel *)
(* while the request awaits its upstream; a reply holding the dispatched   *)
(* sentinel followed by a valid function_calls block is turned into tool   *)
(* calls.                                                                  *)
(***************************************************************************)
C13_SentinelStableAcrossReload ==
    (/\ req_pc = "returned"
     /\ has_function_call
     /\ ReturnedOn = Answer("completion", dispatched.signal \o TokOneCall)) =>
        /\ Len(response.tool_calls) = 1
        /\ response.tool_calls[1].name = "t"
        /\ response.finish_reason = "tool_calls"

\* The same when the sentinel read after the upstream's answer is still the
\* one of the dispatch.
SentinelParsedWithoutReload ==
    (req_pc = "returned" /\ posted[Len(posted)].signal = dispatched.signal) =>
        C13_SentinelStableAcrossReload

\* A reply with the dispatched sentinel and a valid block went back to the
\* client as text, after a reload that drew another sentinel.
SentinelLostAcrossReload ==
    /\ req_pc = "returned"
    /\ has_function_call
    /\ ReturnedOn = Answer("completion", dispatched.signal \o TokOneCall)
    /\ GLOBAL_TRIGGER_SIGNAL # dispatched.signal
    /\ response.tool_calls = <<>>
    /\ response.content = dispatched.signal \o TokOneCall

(***************************************************************************)
(* C14. Config snapshot isolation: a request in flight keeps using the     *)
(* configuration it saw at dispatch; a reload that completes while it is   *)
(* suspended on an upstream call changes neither the key_passthrough       *)
(* choice, nor the timeout, nor the function-calling flag, nor the         *)
(* candidate list used by its later steps, its later failover attempts     *)
(* among them.                                                             *)
(***************************************************************************)
C14_ConfigSnapshotIsolation ==
    dispatched # None =>
        /\ has_function_call = dispatched.config.enable_function_calling
        /\ Len(upstreams) = Len(dispatched.route.services)
        /\ \A k \in DOMAIN posted :
               /\ posted[k].idx = k - 1
               /\ posted[k].key_passthrough = dispatched.config.key_passthrough
               /\ posted[k].timeout = dispatched.config.timeout

\* What does hold: the flag and the candidates are those of the dispatch.
SnapshotOfLocals ==
    dispatched # None =>
        /\ has_function_call = dispatched.config.enable_function_calling
        /\ Len(upstreams) = Len(dispatched.route.services)
        /\ \A k \in DOMAIN posted : posted[k].idx = k - 1

\* A failover attempt was sent with the key_passthrough choice and the
\* timeout of a configuration loaded after the dispatch.
SnapshotBroken ==
    /\ dispatched # None
    /\ Len(posted) = 2
    /\ posted[1].key_passthrough = dispatched.config.key_passthrough
    /\ posted[2].key_passthrough # dispatched.config.key_passthrough
    /\ posted[2].timeout # dispatched.config.timeout

(***************************************************************************)
(* C15. Rejected reload leaves state unchanged: an update_config call      *)
(* whose configuration fails validation is answered with an error and      *)
(* leaves app_config, the model and alias mappings, the default service,   *)
(* the allowed client keys, the sentinel and the configuration file as     *)
(* they were before the call.                                              *)
(***************************************************************************)
Rejecting ==
    /\ admin_reply' # admin_reply
    /\ ~ValidConfig(admin_reply'.config_data)

C15_RejectedReloadKeepsState ==
    [][Rejecting =>
          /\ admin_reply'.status = 400
          /\ UNCHANGED <<app_config, config_file, MODEL_TO_SERVICE_MAPPING, ALIAS_MAPPING,
                         DEFAULT_SERVICE, ALLOWED_CLIENT_KEYS, GLOBAL_TRIGGER_SIGNAL>>]_vars

\* A configuration without services was rejected while ConfigB, loaded by an
\* earlier call, is active and on file.
C15_Witness ==
    /\ admin_reply = AdminReply(400, ConfigNoServices)
    /\ app_config = ConfigB
    /\ config_file = ConfigB
    /\ GLOBAL_TRIGGER_SIGNAL = OtherSignal

(***************************************************************************)
(* C16. Streaming parse failure: whenever the sentinel was detected but    *)
(* the buffered text does not parse into at least one call, at the early   *)
(* finalize or at the end of the stream, the client receives exactly one   *)
(* content event with the text "Error: Detected tool use signal but failed *)
(* to parse function call format", then exactly one [DONE], and no         *)
(* tool-call event.                                                        *)
(***************************************************************************)
ParseFailed ==
    /\ proxy_pc = "returned"
    /\ detector.state = "tool_parsing"
    /\ finalize(detector) = <<>>

ChunksOf(kind) == {i \in DOMAIN client : client[i].kind = kind}
ErrorEvents == {i \in ChunksOf("content") : client[i].content = ParseErrorText}

C16_StreamingParseFailure ==
    ParseFailed =>
        /\ ~stream_aborted
        /\ Cardinality(ErrorEvents) = 1
        /\ ErrorEvents = {Len(client) - 1}
        /\ client[Len(client) - 1].id = "error-chunk"
        /\ ChunksOf("done") = {Len(client)}
        /\ ChunksOf("tool_calls") = {}
        /\ ChunksOf("finish") = {}

\* The early finalize failed: the buffer holds a closing tag and no call, and
\* text was passed on before the sentinel.
C16_Witness ==
    /\ ParseFailed
    /\ Contains(detector.content_buffer, "</function_calls>")
    /\ Len(client) = 3
    /\ client[1].id = "passthrough"

\* The finalize after the loop failed: the stream ended with the sentinel and
\* no closing tag in the buffer.
ParseFailedAtEnd ==
    /\ ParseFailed
    /\ ~Contains(detector.content_buffer, "</function_calls>")
    /\ upstream_pos = Len(upstream_text)
    /\ Len(client) = 2

(***************************************************************************)
(* The streaming upstream fails.  It answers with a status other than 200  *)
(* before any line, or the transport raises while the request is sent or   *)
(* the lines are read: the connection cannot be made, a timeout expires,   *)
(* or the upstream closes the connection before the reply is complete      *)
(* (httpx.RemoteProtocolError).  The repository holds the streaming proxy  *)
(* twice, in src/main.py and in src/toolify_core/streaming_proxy.py; the   *)
(* two differ only in how they catch RemoteProtocolError.                  *)
(***************************************************************************)
StreamStatusCodes == {400, 401, 403, 404, 429, 500, 503}
RequestErrors == {"ConnectError", "ReadTimeout", "RemoteProtocolError"}

StatusMessage(status_code) ==
    IF status_code = 401 THEN "Authentication failed"
    ELSE IF status_code = 403 THEN "Access forbidden"
    ELSE IF status_code = 429 THEN "Rate limit exceeded"
    ELSE IF status_code >= 500 THEN "Upstream service temporarily unavailable"
    ELSE "Request processing failed"

ErrorChunk(message, type) ==
    [kind |-> "error", message |-> message, type |-> type, enc |-> "bytes"]

\* status_code is 0 when the transport raised
Fault(kind, status_code, caught_by) ==
    [kind |-> kind, status_code |-> status_code, caught_by |-> caught_by]

\* response.status_code != 200
UpstreamStatus ==
    /\ proxy_pc = "streaming"
    /\ upstream_pos = 0
    /\ last_ret = None
    /\ client = <<>>
    /\ \E status_code \in StreamStatusCodes :
          /\ fault' = Fault("status", status_code, "status check")
          /\ Yield(<<ErrorChunk(StatusMessage(status_code), "upstream_error"),
                     DoneChunk("bytes")>>, TRUE)
    /\ UNCHANGED <<upstream_tokens, upstream_text, upstream_pos, detector, last_ret,
                   mapvars, reqvars, fnvars, cfgvars, lockvars>>

\* the proxy of src/main.py: except httpx.RequestError, which every transport
\* error is
UpstreamRequestError ==
    /\ proxy_pc = "streaming"
    /\ \E e \in RequestErrors : fault' = Fault(e, 0, "except httpx.RequestError")
    /\ Yield(<<ErrorChunk("Failed to connect to upstream service", "connection_error"),
               DoneChunk("bytes")>>, TRUE)
    /\ UNCHANGED <<upstream_tokens, upstream_text, upstream_pos, detector, last_ret,
                   mapvars, reqvars, fnvars, cfgvars, lockvars>>

\* the proxy of src/toolify_core: except httpx.RemoteProtocolError comes
\* first and returns
UpstreamClosedCore ==
    /\ proxy_pc = "streaming"
    /\ fault' = Fault("RemoteProtocolError", 0, "except httpx.RemoteProtocolError")
    /\ proxy_pc' = "returned"
    /\ UNCHANGED <<upstream_tokens, upstream_text, upstream_pos, detector, last_ret,
                   client, stream_aborted, mapvars, reqvars, fnvars, cfgvars, lockvars>>

StreamFaultNext ==
    \/ UpstreamDelta
    \/ UpstreamEmptyDelta
    \/ UpstreamEnd
    \/ UpstreamStatus
    \/ UpstreamRequestError
    \/ UpstreamClosedCore

SpecStreamFault == StreamInit /\ [][StreamFaultNext]_vars

(***************************************************************************)
(* C17. Streaming upstream failure: in the function-calling streaming      *)
(* path, every transient failure of the upstream (a status other than 200, *)
(* a connection failure, a connection closed too early by the upstream, a  *)
(* timeout) gives the client a single SSE error event and then [DONE] as   *)
(* the last event of the stream.                                           *)
(***************************************************************************)
ErrorThenDone ==
    /\ Len(client) >= 2
    /\ ChunksOf("error") = {Len(client) - 1}
    /\ ChunksOf("done") = {Len(client)}

C17_StreamingUpstreamFailure ==
    (proxy_pc = "returned" /\ fault # None) => ErrorThenDone

\* It holds of the proxy in src/main.py.
StreamingFailureInMain ==
    (/\ proxy_pc = "returned"
     /\ fault # None
     /\ fault.caught_by # "except httpx.RemoteProtocolError") => ErrorThenDone

\* The upstream closed the connection after text had been passed on, and the
\* stream ended there: no error event, no [DONE].
StreamEndsSilently ==
    /\ proxy_pc = "returned"
    /\ fault # None
    /\ fault = Fault("RemoteProtocolError", 0, "except httpx.RemoteProtocolError")
    /\ client # <<>>
    /\ ChunksOf("error") = {}
    /\ ChunksOf("done") = {}

(***************************************************************************)
(* C18. Unary parse failure: when the upstream's unary reply contains the  *)
(* sentinel but no valid function_calls block, the client receives the     *)
(* upstream's response with the original message content verbatim, without *)
(* tool_calls and with the upstream's finish_reason unchanged, and nothing *)
(* is stored in the ID map.                                                *)
(***************************************************************************)
UnparsedReply ==
    /\ req_pc = "returned"
    /\ has_function_call
    /\ ReturnedOn.kind = "ok"
    /\ ReturnedOn.body = "completion"
    /\ ReturnedOn.content \in UnparsedContents

C18_UnaryParseFailure ==
    UnparsedReply =>
        /\ response.status = 200
        /\ response.content = ReturnedOn.content
        /\ response.tool_calls = <<>>
        /\ response.finish_reason = ReturnedOn.finish_reason
        /\ data = <<>>
        /\ \A id \in Ids : h_store[id] = NoRec

\* The second upstream answered with a truncated completion that holds the
\* sentinel and an empty function_calls block, after the first had failed.
C18_Witness ==
    /\ UnparsedReply
    /\ Len(contacted) = 2
    /\ ReturnedOn = Truncated(TokPlain \o trigger_signal \o TokEmptyBlock)
    /\ response.finish_reason = "length"

(***************************************************************************)
(* C19. For any stream in which the sentinel appears only inside balanced  *)
(* think blocks, the detector's think_depth is 0 when the stream has       *)
(* ended, whatever the chunking and wherever the last closing think tag    *)
(* stands relative to the end of the stream.                               *)
(***************************************************************************)
\* every think block of the reply is closed, and every sentinel stands in one
OnlyInBalancedThink(ts) ==
    /\ SignalsAt(ts) # {}
    /\ \A k \in SignalsAt(ts) : InBalancedThink(ts, k)
    /\ DepthAfter(ts, Len(ts)) = 0

C19_ThinkDepthZeroAtEnd ==
    (proxy_pc = "returned" /\ OnlyInBalancedThink(upstream_tokens)) =>
        detector.think_depth = 0

\* The stream ended with the closing tag in the text that was held back:
\* the client has the whole reply and the detector is still in the block.
ThinkLeftOpenAtEnd ==
    /\ proxy_pc = "returned"
    /\ upstream_tokens = <<ThinkOpen, trigger_signal, ThinkClose>>
    /\ detector.think_depth = 1
    /\ detector.in_think_block
    /\ Forwarded = upstream_text

(***************************************************************************)
(* The history of a request on its way to the upstream.  A request of      *)
(* /v1/chat/completions has OpenAI messages, which chat_completions gives  *)
(* to preprocess_messages; a request of /v1/messages has Anthropic         *)
(* messages, whose content is a string or a list of blocks, which          *)
(* anthropic_messages gives to anthropic_to_openai_request and then sends. *)
(* The injected system prompt is not among the messages here.              *)
(***************************************************************************)
MaxMessages == 2

AssistantMessage(c) == [role |-> "assistant", tool_call_id |-> 0, content |-> c]
OneToolCall == <<[name |-> "t", arguments |-> [kind |-> "invalid", text |-> "abc"]]>>
DeveloperMessage == [role |-> "developer", tool_call_id |-> 0, content |-> "Be brief"]
ChatMessages ==
    {UserMessage, DeveloperMessage, ToolMessage(0, "sunny")}
    \cup {ToolMessage(id, c) : id \in Ids, c \in ToolContents}
    \cup {AssistantMessage(c) : c \in {"", "Hi"}}
    \cup {[role |-> "assistant", tool_call_id |-> 0, content |-> c, tool_calls |-> tc] :
             c \in {"", "Hi"}, tc \in {<<>>, OneToolCall}}

TextBlock == [type |-> "text", text |-> "Hi", tool_use_id |-> 0, content |-> ""]
ToolResultBlock(id, c) == [type |-> "tool_result", text |-> "", tool_use_id |-> id, content |-> c]
ToolUseBlock == [type |-> "tool_use", text |-> "", tool_use_id |-> 1, content |-> ""]

StrContent(text) == [is_list |-> FALSE, text |-> text, blocks |-> <<>>]
ListContent(blocks) == [is_list |-> TRUE, text |-> "", blocks |-> blocks]

BlockLists(B) == UNION {[1..k -> B] : k \in 1..2}
AnthropicMessages ==
    {[role |-> r, content |-> StrContent("Hi")] : r \in {"user", "assistant"}}
    \cup {[role |-> "user", content |-> ListContent(bs)] :
             bs \in BlockLists({TextBlock} \cup {ToolResultBlock(1, c) : c \in ToolContents})}
    \cup {[role |-> "assistant", content |-> ListContent(bs)] :
             bs \in BlockLists({TextBlock, ToolUseBlock})}

Histories(M) == UNION {[1..k -> M] : k \in 1..MaxMessages}

\* " ".join(text_parts)
RECURSIVE JoinSpaces(_)
JoinSpaces(parts) ==
    IF parts = <<>> THEN ""
    ELSE IF Len(parts) = 1 THEN parts[1]
    ELSE parts[1] \o " " \o JoinSpaces(Tail(parts))

TextParts(blocks) ==
    LET texts == SelectSeq(blocks, LAMBDA b : b.type = "text")
    IN  [i \in DOMAIN texts |-> texts[i].text]

\* the tool_result blocks of a user message, each as a message of role tool
ToolResults(blocks) ==
    LET results == SelectSeq(blocks, LAMBDA b : b.type = "tool_result")
    IN  [i \in DOMAIN results |->
            [role |-> "tool", tool_call_id |-> results[i].tool_use_id,
             content |-> results[i].content]]

\* anthropic_to_openai_request, the messages
RECURSIVE anthropic_to_openai_request(_)
anthropic_to_openai_request(messages) ==
    IF messages = <<>> THEN <<>>
    ELSE LET msg == Head(messages)
             text_parts == TextParts(msg.content.blocks)
             converted ==
                 IF msg.role = "user" /\ msg.content.is_list
                 THEN ToolResults(msg.content.blocks)
                      \o (IF text_parts # <<>>
                          THEN <<[role |-> "user", content |-> JoinSpaces(text_parts)]>>
                          ELSE <<>>)
                 ELSE <<[role |-> msg.role,
                         content |-> IF msg.content.is_list
                                     THEN JoinSpaces(text_parts)
                                     ELSE msg.content.text]>>
         IN  converted \o anthropic_to_openai_request(Tail(messages))

Request(path, messages) == [path |-> path, messages |-> messages]
Sending(done, messages) == [done |-> done, messages |-> messages]

\* the configuration in force: convert_developer_to_system on or off
RewriteInit ==
    /\ MapIdle /\ StreamIdle /\ ReqIdle /\ LockIdle
    /\ \E convert \in BOOLEAN :
           Loaded([BaseConfig EXCEPT !.convert_developer_to_system = convert],
                  trigger_signal)
    /\ config_file = BaseConfig
    /\ admin_reply = None
    /\ fn_pc = "given"
    /\ fn_in \in {Request("/v1/chat/completions", h) : h \in Histories(ChatMessages)}
                 \cup {Request("/v1/messages", h) : h \in Histories(AnthropicMessages)}
    /\ fn_text = ""
    /\ fn_out = Sending(0, <<>>)

\* (each processed message put before the ones processed so far)
PreprocessNextReversed ==
    /\ fn_pc = "given"
    /\ fn_in.path = "/v1/chat/completions"
    /\ preprocess_messages(fn_in.messages[fn_out.done + 1])
    /\ fn_out' = Sending(fn_out.done + 1, processed'.out \o fn_out.messages)
    /\ fn_pc' = IF fn_out.done + 1 = Len(fn_in.messages) THEN "sent" ELSE "given"
    /\ UNCHANGED <<fn_in, fn_text, upstreams, upstream_idx, contacted, response,
                   has_function_call, req_pc, dispatched, posted, streamvars, cfgvars, lockvars>>

\* chat_completions: preprocess_messages, one message of the loop at a time;
\* after the last the request body is sent
PreprocessNext ==
    /\ fn_pc = "given"
    /\ fn_in.path = "/v1/chat/completions"
    /\ preprocess_messages(fn_in.messages[fn_out.done + 1])
    /\ fn_out' = Sending(fn_out.done + 1, fn_out.messages \o processed'.out)
    /\ fn_pc' = IF fn_out.done + 1 = Len(fn_in.messages) THEN "sent" ELSE "given"
    /\ UNCHANGED <<fn_in, fn_text, upstreams, upstream_idx, contacted, response,
                   has_function_call, req_pc, dispatched, posted, streamvars, cfgvars, lockvars>>

\* anthropic_messages: the converted request is sent as it is
ConvertAndSend ==
    /\ fn_pc = "given"
    /\ fn_in.path = "/v1/messages"
    /\ fn_out' = Sending(Len(fn_in.messages), anthropic_to_openai_request(fn_in.messages))
    /\ fn_pc' = "sent"
    /\ UNCHANGED <<fn_in, fn_text, mapvars, streamvars, reqvars, cfgvars, lockvars>>

RewriteNext == PreprocessNext \/ ConvertAndSend

SpecRewrite == RewriteInit /\ [][RewriteNext]_vars

(***************************************************************************)
(* C20. Message rewriting on both dialects: for every request proxied      *)
(* upstream, arrived on /v1/chat/completions or on /v1/messages, the tool  *)
(* results and the assistant's tool calls of the history are rewritten     *)
(* into plain text before the request is sent: no message with role        *)
(* "tool" and no "tool_calls" field reaches an upstream.                   *)
(***************************************************************************)
NoToolRole == \A i \in DOMAIN fn_out.messages : fn_out.messages[i].role # "tool"
NoToolCallsField ==
    \A i \in DOMAIN fn_out.messages : "tool_calls" \notin DOMAIN fn_out.messages[i]

C20_RewritingOnBothDialects ==
    fn_pc = "sent" => (NoToolRole /\ NoToolCallsField)

(***************************************************************************)
(* C36. The frame of preprocess_messages, as claimed: what it returns is,  *)
(* in the order of the messages given, nothing for a tool message without  *)
(* a tool_call_id or a content, one user message for any other tool        *)
(* message, one assistant message without tool_calls for an assistant      *)
(* message with a non-empty tool_calls, and the message itself for any     *)
(* other message.                                                          *)
(***************************************************************************)
SameMessage(m, o) ==
    /\ o.role = m.role
    /\ o.content = m.content
    /\ ("tool_calls" \in DOMAIN o) = ("tool_calls" \in DOMAIN m)
    /\ "tool_calls" \in DOMAIN m => o.tool_calls = m.tool_calls

\* o is what stands for m; renamed: a developer message goes out as system
OneFor(m, o, renamed) ==
    IF m.role = "tool"
    THEN o.role = "user" /\ "tool_calls" \notin DOMAIN o
    ELSE IF m.role = "assistant" /\ "tool_calls" \in DOMAIN m /\ m.tool_calls # <<>>
    THEN o.role = "assistant" /\ "tool_calls" \notin DOMAIN o
    ELSE IF m.role = "developer" /\ renamed
    THEN o.role = "system" /\ o.content = m.content /\ "tool_calls" \notin DOMAIN o
    ELSE SameMessage(m, o)

Dropped(m) == m.role = "tool" /\ (m.tool_call_id = 0 \/ m.content = "")

RECURSIVE FrameOf(_, _, _)
FrameOf(ms, out, renamed) ==
    IF ms = <<>> THEN out = <<>>
    ELSE IF Dropped(Head(ms)) THEN FrameOf(Tail(ms), out, renamed)
    ELSE /\ out # <<>>
         /\ OneFor(Head(ms), Head(out), renamed)
         /\ FrameOf(Tail(ms), Tail(out), renamed)

Preprocessed == fn_pc = "sent" /\ fn_in.path = "/v1/chat/completions"

ToolMessageWithoutIdDropped ==
    /\ Preprocessed
    /\ fn_in.messages = <<ToolMessage(0, "sunny"), UserMessage>>
    /\ fn_out.messages = <<[role |-> "user", content |-> "Hi"]>>

\* What holds: chat_completions sends no message of role tool and no
\* tool_calls but an empty one; anthropic_messages sends no tool_calls field.
RewritingWhereDone ==
    fn_pc = "sent" =>
        /\ fn_in.path = "/v1/chat/completions" => NoToolRole
        /\ \A i \in DOMAIN fn_out.messages :
               "tool_calls" \in DOMAIN fn_out.messages[i] =>
                   fn_out.messages[i].tool_calls = <<>>

\* A tool_result block of a /v1/messages request went upstream as a message
\* of role tool.
ToolRoleSentUpstream ==
    /\ fn_pc = "sent"
    /\ fn_in = Request("/v1/messages",
                       <<[role |-> "user",
                          content |-> ListContent(<<ToolResultBlock(1, "sunny")>>)]>>)
    /\ fn_out.messages = <<ToolMessage(1, "sunny")>>

\* An assistant message of a /v1/chat/completions request went upstream with
\* its empty tool_calls.
EmptyToolCallsSentUpstream ==
    /\ fn_pc = "sent"
    /\ fn_in.path = "/v1/chat/completions"
    /\ ~NoToolCallsField

\* An assistant message with a tool call was rewritten into text.
ToolCallsRewritten ==
    /\ fn_pc = "sent"
    /\ fn_in = Request("/v1/chat/completions",
                       <<[role |-> "assistant", tool_call_id |-> 0, content |-> "Hi",
                          tool_calls |-> OneToolCall]>>)
    /\ Len(fn_out.messages) = 1
    /\ Contains(fn_out.messages[1].content, "<tool>t</tool>")
    /\ StartsWithAt(fn_out.messages[1].content, 0, "Hi\n" \o trigger_signal)

(***************************************************************************)
(* The injected prompt.  get_function_call_prompt_template with the        *)
(* built-in template: an f-string with {tools_list} once and               *)
(* {trigger_signal} three times (in rule 1, in the CORRECT example and in  *)
(* the INCORRECT example).  The fixed text between the placeholders is cut *)
(* to its first and last words here; what stands between the cuts holds    *)
(* neither a placeholder nor a sentinel.                                   *)
(***************************************************************************)
MaxTools == 2

TemplateHead == "\nYou have access to the following available tools to help solve problems:\n\n"
TemplateRules ==
    "\n\n**IMPORTANT CONTEXT NOTES:**\n1. When starting tool calls, begin on a new line with exactly:\n"
TemplateAfterRule ==
    "\nNo leading or trailing spaces. The trigger signal MUST be on its own line and appear only once.\n\nCORRECT Example:\n...response content (optional)...\n"
TemplateAfterCorrect ==
    "\n<function_calls>\n</function_calls>\n\nINCORRECT Example:\n...response content (optional)...\n"
TemplateTail ==
    "\nI will call the tools for you.\n<function_calls>\n</function_calls>\n\nNow please be ready to strictly follow the above specifications.\n"

get_function_call_prompt_template(signal) ==
    TemplateHead \o "{tools_list}" \o TemplateRules \o signal \o TemplateAfterRule
        \o signal \o TemplateAfterCorrect \o signal \o TemplateTail

\* s.replace(old, new)
RECURSIVE Replace(_, _, _)
Replace(s, old, new) ==
    LET at == Find(s, old, 0)
    IN  IF at = -1 THEN s
        ELSE Slice(s, 0, at) \o new \o Replace(From(s, at + Len(old)), old, new)

\* s.count(p) for a p that cannot overlap itself
CountOf(s, p) == Cardinality({i \in 0..(Len(s) - Len(p)) : StartsWithAt(s, i, p)})

\* a declared tool whose parameters schema has no properties; schema_ok is
\* FALSE when the schema is not an object (the Anthropic dialect lets it be)
DeclaredTool(name, description, schema_ok) ==
    [name |-> name, description |-> description, schema_ok |-> schema_ok]

\* the entry of tools_list_str for the tool at index i (from 0); the
\* backquotes of the source are written as ' here and below
ToolEntry(i, tool) ==
    NatToStr(i + 1) \o ". <tool name=\"" \o tool.name \o "\">\n"
        \o "   Description:\n"
        \o (IF tool.description # "" THEN "'''\n" \o tool.description \o "\n'''" ELSE "None")
        \o "\n   Parameters summary: None\n"
        \o "   Required parameters: None\n"
        \o "   Parameter details:\n(no parameter details)"

\* "\n\n".join(parts)
RECURSIVE JoinBlank(_)
JoinBlank(parts) ==
    IF parts = <<>> THEN ""
    ELSE IF Len(parts) = 1 THEN parts[1]
    ELSE parts[1] \o "\n\n" \o JoinBlank(Tail(parts))

generate_function_prompt(tools, signal) ==
    Replace(get_function_call_prompt_template(signal), "{tools_list}",
            JoinBlank([i \in DOMAIN tools |-> ToolEntry(i - 1, tools[i])]))

\* tool_choice as the request model holds it: absent, a string, or a
\* ToolChoice whose function is the dict {"name": T}
NoToolChoice == [kind |-> "absent", value |-> ""]
StrToolChoice(value) == [kind |-> "str", value |-> value]
FunctionToolChoice(name) == [kind |-> "function", value |-> name]

ProhibitedText ==
    "\n\n**IMPORTANT:** You are prohibited from using any tools in this round. Please respond like a normal chat assistant and answer the user's question directly."
OnlyToolText(name) ==
    "\n\n**IMPORTANT:** In this round, you must use ONLY the tool named '" \o name
        \o "'. Generate the necessary parameters and output in the specified XML format."

\* hasattr(tool_choice.function, 'name'): ToolChoice.function is a
\* Dict[str, str], and a dict has no attribute of the name of its key
FunctionHasNameAttribute(tool_choice) == FALSE

\* safe_process_tool_choice where the function's name is read from the dict
SafeProcessToolChoiceByKey(tool_choice) ==
    IF tool_choice.kind = "absent" THEN ""
    ELSE IF tool_choice.kind = "str"
    THEN IF tool_choice.value = "none" THEN ProhibitedText ELSE ""
    ELSE OnlyToolText(tool_choice.value)

safe_process_tool_choice(tool_choice) ==
    IF tool_choice.kind = "absent" THEN ""
    ELSE IF tool_choice.kind = "str"
    THEN IF tool_choice.value = "none" THEN ProhibitedText ELSE ""
    ELSE IF FunctionHasNameAttribute(tool_choice)
    THEN OnlyToolText(tool_choice.value)
    ELSE ""

(***************************************************************************)
(* The request body on its way upstream.  chat_completions rewrites the    *)
(* messages (preprocess_messages), dumps the request, and then injects the *)
(* prompt and deletes tools and tool_choice; anthropic_messages converts   *)
(* the request, injects the prompt and deletes tools.  A body is the       *)
(* messages and which of the fields tools and tool_choice it has.          *)
(***************************************************************************)
ToolsAbsent == [given |-> FALSE, list |-> <<>>]
ToolsGiven(list) == [given |-> TRUE, list |-> list]

ChatTools == {DeclaredTool("t", "", TRUE), DeclaredTool("get_weather", "Look up", TRUE)}
\* the Anthropic request takes any dict as a tool: one has input_schema null
AnthropicTools == ChatTools \cup {DeclaredTool("bad", "", FALSE)}
ToolLists(T) == UNION {[1..k -> T] : k \in 0..MaxTools}

ToolChoices ==
    {NoToolChoice, StrToolChoice("none"), StrToolChoice("auto"), StrToolChoice("required"),
     FunctionToolChoice("t")}

InjectChatMessages ==
    {UserMessage, ToolMessage(1, "sunny"),
     [role |-> "assistant", tool_call_id |-> 0, content |-> "Hi", tool_calls |-> OneToolCall]}
InjectAnthropicMessages ==
    {[role |-> "user", content |-> StrContent("Hi")],
     [role |-> "user", content |-> ListContent(<<TextBlock, ToolResultBlock(1, "sunny")>>)],
     [role |-> "assistant", content |-> ListContent(<<TextBlock, ToolUseBlock>>)]}

InjectRequest(path, messages, tools, tool_choice) ==
    [path |-> path, messages |-> messages, tools |-> tools, tool_choice |-> tool_choice]

InjectRequests ==
    {InjectRequest("/v1/chat/completions", h, t, c) :
        h \in Histories(InjectChatMessages),
        t \in {ToolsAbsent} \cup {ToolsGiven(l) : l \in ToolLists(ChatTools)},
        c \in ToolChoices}
    \cup {InjectRequest("/v1/messages", h, t, NoToolChoice) :
        h \in Histories(InjectAnthropicMessages),
        t \in {ToolsAbsent} \cup {ToolsGiven(l) : l \in ToolLists(AnthropicTools)}}

Body(done, messages, fields) == [done |-> done, messages |-> messages, fields |-> fields]

SystemMessage(content) == [role |-> "system", content |-> content]

\* messages.insert(len(messages), system_message)
InsertLast(messages, system_message) == Append(messages, system_message)

\* messages.insert(0, system_message)
InsertFirst(messages, system_message) == <<system_message>> \o messages

\* the fields of model_dump(exclude_unset=True) among tools and tool_choice
DumpedFields(req) ==
    (IF req.tools.given THEN {"tools"} ELSE {})
    \cup (IF req.tool_choice.kind # "absent" THEN {"tool_choice"} ELSE {})

InjectInit ==
    /\ LockIdle /\ MapIdle /\ StreamIdle /\ ReqIdle
    /\ \E c \in {BaseConfig, ConfigB} : Loaded(c, trigger_signal) /\ config_file = c
    /\ admin_reply = None
    /\ fn_pc = "given"
    /\ fn_in \in InjectRequests
    /\ fn_text = ""
    /\ fn_out = Sending(0, <<>>)

\* chat_completions after preprocess_messages: main.py:1400-1449
InjectChat ==
    /\ fn_pc = "sent"
    /\ fn_in.path = "/v1/chat/completions"
    /\ LET is_fc_enabled == app_config.enable_function_calling
           has_tools_in_request == fn_in.tools.list # <<>>
           function_prompt ==
               generate_function_prompt(fn_in.tools.list, GLOBAL_TRIGGER_SIGNAL)
                   \o safe_process_tool_choice(fn_in.tool_choice)
       IN  /\ has_function_call' = (is_fc_enabled /\ has_tools_in_request)
           /\ fn_out' =
                 IF is_fc_enabled /\ has_tools_in_request
                 THEN Body(fn_out.done,
                           InsertFirst(fn_out.messages, SystemMessage(function_prompt)), {})
                 ELSE IF has_tools_in_request
                 THEN Body(fn_out.done, fn_out.messages, {})
                 ELSE Body(fn_out.done, fn_out.messages, DumpedFields(fn_in))
    /\ fn_pc' = "injected"
    /\ UNCHANGED <<fn_in, fn_text, upstreams, upstream_idx, contacted, response, req_pc,
                   processed, dispatched, posted, mapvars, streamvars, cfgvars, lockvars>>

\* anthropic_messages: main.py:2039-2087
InjectAnthropic ==
    /\ fn_pc = "given"
    /\ fn_in.path = "/v1/messages"
    /\ LET messages == anthropic_to_openai_request(fn_in.messages)
           has_tools == fn_in.tools.list # <<>>
           is_fc_enabled == app_config.enable_function_calling
           tool_objects == SelectSeq(fn_in.tools.list, LAMBDA t : t.schema_ok)
           function_prompt == generate_function_prompt(tool_objects, GLOBAL_TRIGGER_SIGNAL)
       IN  /\ has_function_call' = (is_fc_enabled /\ has_tools)
           /\ fn_out' =
                 IF is_fc_enabled /\ has_tools /\ tool_objects # <<>>
                 THEN Body(Len(fn_in.messages),
                           InsertFirst(messages, SystemMessage(function_prompt)), {})
                 ELSE Body(Len(fn_in.messages), messages, {})
    /\ fn_pc' = "injected"
    /\ UNCHANGED <<fn_in, fn_text, upstreams, upstream_idx, contacted, response, req_pc,
                   processed, dispatched, posted, mapvars, streamvars, cfgvars, lockvars>>

InjectNext == PreprocessNext \/ InjectChat \/ InjectAnthropic

SpecInject == InjectInit /\ [][InjectNext]_vars

Injected == fn_pc = "injected" /\ has_function_call /\ fn_out.messages[1].role = "system"

(***************************************************************************)
(* C21. For every tool list and sentinel, the system prompt made by        *)
(* generate_function_prompt with the built-in template contains the        *)
(* sentinel literally and only once.                                       *)
(***************************************************************************)
C21_SentinelOnceInPrompt ==
    Injected => CountOf(fn_out.messages[1].content, GLOBAL_TRIGGER_SIGNAL) = 1

\* The template names it three times, whatever the tools.
SentinelThriceInPrompt ==
    Injected => CountOf(fn_out.messages[1].content, GLOBAL_TRIGGER_SIGNAL) = 3

PromptWithTwoTools ==
    /\ Injected
    /\ Len(fn_in.tools.list) = 2
    /\ Contains(fn_out.messages[1].content, "2. <tool name=\"get_weather\">")
    /\ ~Contains(fn_out.messages[1].content, "{tools_list}")

(***************************************************************************)
(* C22. Prompt injection frame.  As claimed: when a request declares tools *)
(* and function calling is enabled, the body sent upstream has the         *)
(* generated system message as messages[0], followed by the rewritten      *)
(* messages in their original order, and has neither a tools nor a         *)
(* tool_choice field; when function calling is disabled the two fields are *)
(* removed as well and no system message is inserted.                      *)
(***************************************************************************)
DeclaresTools == fn_in.tools.given /\ fn_in.tools.list # <<>>

\* the step that builds the body
Injecting == fn_pc # "injected" /\ fn_pc' = "injected"

\* the rewritten messages: what preprocess_messages has made, or what
\* anthropic_to_openai_request makes
Rewritten ==
    IF fn_in.path = "/v1/chat/completions" THEN fn_out.messages
    ELSE anthropic_to_openai_request(fn_in.messages)

PromptFirst ==
    /\ fn_out'.messages = InsertFirst(Rewritten, fn_out'.messages[1])
    /\ fn_out'.messages[1].role = "system"
    /\ StartsWithAt(fn_out'.messages[1].content, 0, TemplateHead \o "1. <tool name=")

SomeToolRead ==
    \E i \in DOMAIN fn_in.tools.list : fn_in.tools.list[i].schema_ok

NoPromptForUnreadTools ==
    /\ fn_pc = "injected"
    /\ has_function_call
    /\ fn_in.path = "/v1/messages"
    /\ fn_out.messages[1].role # "system"

(***************************************************************************)
(* C23. tool_choice on the OpenAI dialect: "none" appends to the injected  *)
(* prompt an instruction that forbids tool use in this turn; {type:        *)
(* "function", function: {name: T}} appends an instruction that restricts  *)
(* the calls to the tool named T; every other value appends nothing.       *)
(***************************************************************************)
Appended ==
    From(fn_out.messages[1].content,
         Len(generate_function_prompt(fn_in.tools.list, GLOBAL_TRIGGER_SIGNAL)))

C23_ToolChoiceHandling ==
    (Injected /\ fn_in.path = "/v1/chat/completions") =>
        Appended = IF fn_in.tool_choice = StrToolChoice("none") THEN ProhibitedText
                   ELSE IF fn_in.tool_choice.kind = "function"
                   THEN OnlyToolText(fn_in.tool_choice.value)
                   ELSE ""

\* What holds: "none" appends the prohibition and every other value nothing.
ToolChoiceNoneOnly ==
    (Injected /\ fn_in.path = "/v1/chat/completions") =>
        Appended = IF fn_in.tool_choice = StrToolChoice("none") THEN ProhibitedText ELSE ""

\* A request that names the tool t in tool_choice got the prompt with
\* nothing appended.
NamedToolIgnored ==
    /\ Injected
    /\ fn_in.path = "/v1/chat/completions"
    /\ fn_in.tool_choice = FunctionToolChoice("t")
    /\ Appended = ""

(***************************************************************************)
(* The keys and the upstreams of a request.  verify_api_key runs before    *)
(* the handler of either endpoint; the handler then routes the model and   *)
(* posts: /v1/chat/completions without stream loops over the candidates,   *)
(* every other request takes upstreams[0].                                 *)
(***************************************************************************)
\* two services serve gpt-4, "low" listed first and "high" of higher priority
ConfigTwoServices(key_passthrough) ==
    Config(<<Service("low", 1, "k1", <<"gpt-4">>), Service("high", 2, "k2", <<"gpt-4">>)>>,
           FALSE, key_passthrough, TRUE, 180, <<"ck">>)

\* the Authorization header a client sends: Bearer <key>
Bearer(key) == "Bearer " \o key

ClientKeys == {"ck", "zz", "Bearer ck", "sk Bearer 1"}

ApiRequest(authorization, path, stream) ==
    [authorization |-> authorization, path |-> path, stream |-> stream]

ApiRequests ==
    {ApiRequest(Bearer(k), p, s) :
        k \in ClientKeys, p \in {"/v1/chat/completions", "/v1/messages"}, s \in BOOLEAN}

\* the key of a header Bearer <key>
BearerKey(authorization) == From(authorization, Len("Bearer "))

Routing(route, answers) == [route |-> route, answers |-> answers]

FrontInit ==
    /\ LockIdle /\ MapIdle /\ StreamIdle /\ ReqIdle
    /\ \E p \in BOOLEAN :
          Loaded(ConfigTwoServices(p), trigger_signal) /\ config_file = ConfigTwoServices(p)
    /\ admin_reply = None
    /\ fn_pc = "given"
    /\ fn_in \in ApiRequests
    /\ fn_text = ""
    /\ fn_out = None

\* HTTPException(status_code=401, detail="Unauthorized")
Unauthorized == ErrorResponse(401, "Unauthorized")

\* authorization.replace("Bearer ", "")
ClientKeyOf(authorization) == Replace(authorization, "Bearer ", "")

verify_api_key ==
    /\ fn_pc = "given"
    /\ \E client_key \in {ClientKeyOf(fn_in.authorization)} :
         IF app_config.key_passthrough \/ client_key \in ALLOWED_CLIENT_KEYS
         THEN /\ fn_text' = client_key
              /\ fn_pc' = "verified"
              /\ UNCHANGED response
         ELSE /\ response' = Unauthorized
              /\ fn_pc' = "rejected"
              /\ UNCHANGED fn_text
    /\ UNCHANGED <<fn_in, fn_out, upstreams, upstream_idx, contacted, has_function_call,
                   req_pc, processed, dispatched, posted, mapvars, streamvars, cfgvars, lockvars>>

\* upstreams, actual_model = find_upstream(body.model); what each candidate
\* will answer is the upstreams' choice
FindUpstream ==
    /\ fn_pc = "verified"
    /\ fn_pc' = "routed"
    /\ \E route \in {find_upstream("gpt-4", 0)} :
         /\ ~route.raised
         /\ fn_out' = route.services
         /\ upstreams' \in [DOMAIN route.services -> Outcomes]
    /\ UNCHANGED <<fn_in, fn_text, upstream_idx, contacted, response, has_function_call,
                   req_pc, processed, dispatched, posted, mapvars, streamvars, cfgvars, lockvars>>

\* the headers of a post to the candidate idx
AuthHeaders(idx) ==
    [idx |-> idx, name |-> fn_out[idx + 1].name,
     Authorization |-> IF app_config.key_passthrough THEN Bearer(fn_text)
                       ELSE Bearer(fn_out[idx + 1].api_key)]

Looping == fn_in.path = "/v1/chat/completions" /\ ~fn_in.stream

\* one turn of for upstream_idx, upstream in enumerate(upstreams)
PostLoop ==
    /\ fn_pc = "routed"
    /\ Looping
    /\ upstream_idx < Len(upstreams)
    /\ contacted' = Append(contacted, upstream_idx)
    /\ posted' = Append(posted, AuthHeaders(upstream_idx))
    /\ \E o \in {upstreams[upstream_idx + 1]} :
         IF Raised(o) # ""
         THEN \E r \in {OnRaised(o, upstream_idx = Len(upstreams) - 1)} :
                  IF r = None
                  THEN /\ upstream_idx' = upstream_idx + 1
                       /\ UNCHANGED <<response, fn_pc>>
                  ELSE /\ response' = r
                       /\ fn_pc' = "returned"
                       /\ UNCHANGED upstream_idx
         ELSE /\ response' = JsonResponse(o, o.content, <<>>, o.finish_reason)
              /\ fn_pc' = "returned"
              /\ UNCHANGED upstream_idx
    /\ UNCHANGED <<fn_in, fn_text, fn_out, upstreams, has_function_call, req_pc, processed,
                   dispatched, mapvars, streamvars, cfgvars, lockvars>>

\* what a stream or a /v1/messages request answers once upstreams[0] has
\* answered: the upstream's completion, or an error of some kind
FirstOnly(o) ==
    IF o.kind = "ok" /\ o.body = "completion"
    THEN JsonResponse(o, o.content, <<>>, o.finish_reason)
    ELSE ErrorResponse(IF fn_in.stream THEN 200
                       ELSE IF o.kind = "status" THEN o.code ELSE 500, "api_error")

\* a post that goes on to the next candidate as the loop does
PostFirstThenNext ==
    /\ fn_pc = "routed"
    /\ ~Looping
    /\ upstream_idx < Len(upstreams)
    /\ contacted' = Append(contacted, upstream_idx)
    /\ posted' = Append(posted, AuthHeaders(upstream_idx))
    /\ \E o \in {upstreams[upstream_idx + 1]} :
         IF Raised(o) # "" /\ OnRaised(o, upstream_idx = Len(upstreams) - 1) = None
         THEN /\ upstream_idx' = upstream_idx + 1
              /\ UNCHANGED <<response, fn_pc>>
         ELSE /\ response' = FirstOnly(o)
              /\ fn_pc' = "returned"
              /\ UNCHANGED upstream_idx
    /\ UNCHANGED <<fn_in, fn_text, fn_out, upstreams, has_function_call, req_pc, processed,
                   dispatched, mapvars, streamvars, cfgvars, lockvars>>

\* upstream = upstreams[0], then the one post of the request
PostFirst ==
    /\ fn_pc = "routed"
    /\ ~Looping
    /\ contacted' = Append(contacted, 0)
    /\ posted' = Append(posted, AuthHeaders(0))
    /\ response' = FirstOnly(upstreams[1])
    /\ fn_pc' = "returned"
    /\ UNCHANGED <<fn_in, fn_text, fn_out, upstreams, upstream_idx, has_function_call,
                   req_pc, processed, dispatched, mapvars, streamvars, cfgvars, lockvars>>

FrontNext == verify_api_key \/ FindUpstream \/ PostLoop \/ PostFirst

SpecFront == FrontInit /\ [][FrontNext]_vars

(***************************************************************************)
(* C24. Client authentication: with key_passthrough disabled, a request    *)
(* whose bearer key is not in the allow-list is answered 401 and no        *)
(* upstream is ever contacted for it; with key_passthrough enabled, any    *)
(* client key is accepted and the Authorization header sent upstream       *)
(* carries that client key verbatim instead of the upstream's api_key.     *)
(***************************************************************************)
C24_ClientAuthentication ==
    fn_pc # "given" =>
        IF app_config.key_passthrough
        THEN /\ fn_pc # "rejected"
             /\ \A i \in DOMAIN posted : posted[i].Authorization = fn_in.authorization
        ELSE BearerKey(fn_in.authorization) \notin ALLOWED_CLIENT_KEYS =>
                 /\ fn_pc = "rejected"
                 /\ response = Unauthorized
                 /\ contacted = <<>>

\* What holds: the key that is checked and forwarded is the header with
\* every "Bearer " taken out of it.
KeyWithoutEveryBearer ==
    fn_pc # "given" =>
        IF app_config.key_passthrough
        THEN /\ fn_pc # "rejected"
             /\ \A i \in DOMAIN posted :
                    posted[i].Authorization = Bearer(ClientKeyOf(fn_in.authorization))
        ELSE IF ClientKeyOf(fn_in.authorization) \in ALLOWED_CLIENT_KEYS
             THEN fn_pc # "rejected"
             ELSE fn_pc = "rejected" /\ response = Unauthorized /\ contacted = <<>>

\* The key "Bearer ck" is not in the allow-list, and its request was posted.
UnlistedKeyPosted ==
    /\ ~app_config.key_passthrough
    /\ fn_in.authorization = Bearer("Bearer ck")
    /\ posted # <<>>

\* The key "sk Bearer 1" went upstream as "sk 1".
KeyForwardedChanged ==
    /\ app_config.key_passthrough
    /\ fn_in.authorization = Bearer("sk Bearer 1")
    /\ posted # <<>>
    /\ posted[1].Authorization = Bearer("sk 1")

(***************************************************************************)
(* C25. No streaming failover: a streaming request contacts exactly one    *)
(* upstream, the first (highest-priority) candidate returned by the        *)
(* router, and never contacts a second upstream whatever error the first   *)
(* one produces.                                                           *)
(***************************************************************************)
C25_NoStreamingFailover ==
    fn_in.stream =>
        /\ \A i \in DOMAIN posted : posted[i].idx = 0 /\ posted[i].name = "high"
        /\ Len(posted) <= 1
        /\ contacted = [i \in DOMAIN posted |-> 0]
        /\ fn_pc = "returned" => Len(posted) = 1

\* A stream whose first candidate answered 503 returned with the second
\* candidate, which would have answered, never contacted.
C25_Witness ==
    /\ fn_in.stream
    /\ fn_pc = "returned"
    /\ Len(upstreams) = 2
    /\ upstreams[1] = StatusError(503)
    /\ upstreams[2].kind = "ok" /\ upstreams[2].body = "completion"
    /\ contacted = <<0>>

(***************************************************************************)
(* openai_to_anthropic_response on its own: a completion of the OpenAI     *)
(* dialect with a content, up to MaxCalls tool calls and a finish_reason   *)
(* is translated.                                                          *)
(***************************************************************************)
ArgDicts ==
    UNION {[K -> {JInt(1), JStr("a\", }b")}] : K \in {{}, {"q"}, {"q", "content"}}}

\* what the arguments of a call hold: the JSON text of a dict, the text of
\* another JSON value, or a text that is not JSON
ArgTexts ==
    {[kind |-> "object", dict |-> d, val |-> JNull, text |-> json_dumps(d)] : d \in ArgDicts}
    \cup {[kind |-> "other", dict |-> <<>>, val |-> JInt(5), text |-> "5"],
          [kind |-> "invalid", dict |-> <<>>, val |-> JNull, text |-> "{\"q\": 1,}"]}

CallIds == <<"call_a", "call_b", "call_c", "call_d">>

CanonicalCalls ==
    UNION {{[i \in 1..k |-> [id |-> CallIds[i], type |-> ty[i], name |-> "t", args |-> a[i]]] :
                ty \in [1..k -> {"function", "custom"}], a \in [1..k -> ArgTexts]} :
           k \in 0..MaxCalls}

FinishReasons == {"tool_calls", "stop", "length", "content_filter", ""}

Completions == [content : {"", "Hi"}, tool_calls : CanonicalCalls, finish_reason : FinishReasons]

TranslateInit ==
    /\ MapIdle /\ StreamIdle /\ ReqIdle /\ CfgIdle /\ LockIdle
    /\ fn_pc = "given"
    /\ fn_in \in Completions
    /\ fn_text = ""
    /\ fn_out = None

\* the tool_calls as the response carries them
Carried(calls) ==
    [i \in DOMAIN calls |->
        FunctionCall(calls[i].id, calls[i].type, calls[i].name, calls[i].args.text)]

Translate ==
    /\ fn_pc = "given"
    /\ fn_pc' = "translated"
    /\ fn_out' = openai_to_anthropic_response(Answer("completion", fn_in.content),
                                              fn_in.content, Carried(fn_in.tool_calls),
                                              fn_in.finish_reason)
    /\ UNCHANGED <<fn_in, fn_text, mapvars, streamvars, reqvars, cfgvars, lockvars>>

TranslateNext == Translate

SpecTranslate == TranslateInit /\ [][TranslateNext]_vars

(***************************************************************************)
(* C26. Anthropic unary response translation.  As claimed: the content     *)
(* array consists of one text block when the assistant content is          *)
(* non-empty, followed by exactly one tool_use block per tool_call in the  *)
(* same order, each with the call's id, name and JSON-decoded arguments as *)
(* input; stop_reason is tool_use for finish_reason tool_calls, end_turn   *)
(* for stop and max_tokens for length.                                     *)
(***************************************************************************)
TextBlocks == IF fn_in.content # "" THEN <<TextContent(fn_in.content)>> ELSE <<>>

\* the block of a call; the arguments that are no JSON text decode to {}
ToolUseOf(call) ==
    [type |-> "tool_use", id |-> call.id, name |-> call.name,
     input |-> IF call.args.kind = "invalid" THEN Decoded("object", <<>>, JNull)
               ELSE Decoded(call.args.kind, call.args.dict, call.args.val)]

ToolUseBlocks(calls) == [i \in DOMAIN calls |-> ToolUseOf(calls[i])]

StopReasonMapped ==
    /\ fn_in.finish_reason = "tool_calls" => fn_out.stop_reason = "tool_use"
    /\ fn_in.finish_reason = "stop" => fn_out.stop_reason = "end_turn"
    /\ fn_in.finish_reason = "length" => fn_out.stop_reason = "max_tokens"

C26_TranslationAsClaimed ==
    fn_pc = "translated" =>
        /\ fn_out.content = TextBlocks \o ToolUseBlocks(fn_in.tool_calls)
        /\ StopReasonMapped

\* Corrected: the tool_use blocks are those of the calls of type "function",
\* and a completion with neither content nor such a call gets one empty
\* text block.
FunctionCalls == SelectSeq(fn_in.tool_calls, LAMBDA c : c.type = "function")

C26_UnaryTranslation ==
    fn_pc = "translated" =>
        /\ fn_out.content =
              IF TextBlocks \o ToolUseBlocks(FunctionCalls) = <<>> THEN <<TextContent("")>>
              ELSE TextBlocks \o ToolUseBlocks(FunctionCalls)
        /\ StopReasonMapped

\* A text and two calls, the second with a dict of two keys whose string
\* value holds a quote, a comma and a brace.
C26_Witness ==
    /\ fn_pc = "translated"
    /\ fn_in.content = "Hi"
    /\ fn_in.finish_reason = "tool_calls"
    /\ Len(fn_out.content) = 3
    /\ fn_out.content[2].id = "call_a"
    /\ fn_out.content[3].id = "call_b"
    /\ fn_out.content[3].input.kind = "object"
    /\ DOMAIN fn_out.content[3].input.dict = {"q", "content"}
    /\ fn_out.content[3].input.dict["q"] = JStr("a\", }b")
    /\ fn_out.stop_reason = "tool_use"

\* Neither content nor calls, and the content array is not empty.
EmptyTextBlock ==
    /\ fn_pc = "translated"
    /\ fn_in.content = ""
    /\ fn_in.tool_calls = <<>>
    /\ fn_out.content = <<TextContent("")>>

(***************************************************************************)
(* stream_openai_to_anthropic under anthropic_stream_generator: the chunks *)
(* of a stream of the OpenAI dialect are consumed one by one and answered  *)
(* with events of the Anthropic dialect.  The stream is what the proxy     *)
(* yields: content deltas, then the [DONE] chunk, or the three chunks of a *)
(* tool call as bytes or as str; an upstream that is read directly may end *)
(* without [DONE].                                                         *)
(***************************************************************************)
MaxDeltas == 2

DeltaChunk(text) == [kind |-> "content", id |-> "passthrough", content |-> text, enc |-> "bytes"]

ToolCallStream == build_tool_call_sse_chunks(<<[index |-> 0, id |-> 1, name |-> "t",
                                               arguments |-> NoArgs]>>)

StreamTails ==
    {<<DoneChunk("bytes")>>, Encoded(ToolCallStream), ToolCallStream, <<>>}

CanonicalStreams ==
    {h \o t : h \in UNION {[1..k -> {DeltaChunk("Hi "), DeltaChunk("there"), DeltaChunk("")}] : k \in 0..MaxDeltas},
              t \in StreamTails}

Event(event, index, type, value) ==
    [event |-> event, index |-> index, type |-> type, value |-> value]

MessageStart == Event("message_start", 0, "message", "")
BlockStart(index, type) == Event("content_block_start", index, type, "")
BlockDelta(index, type, value) == Event("content_block_delta", index, type, value)
BlockStop(index) == Event("content_block_stop", index, "", "")
MessageDelta(stop_reason) == Event("message_delta", 0, "", stop_reason)
MessageStop == Event("message_stop", 0, "", "")
\* anthropic_stream_generator's except Exception
ErrorEvent == Event("error", 0, "api_error", "")

\* the generator's locals
Locals(pc, pos, index, type, started) ==
    [pc |-> pc, pos |-> pos, current_block_index |-> index, current_block_type |-> type,
     tool_call_started |-> started]

AnthropicStreamInit ==
    /\ MapIdle /\ StreamIdle /\ ReqIdle /\ CfgIdle /\ LockIdle
    /\ fn_pc = "given"
    /\ fn_in \in CanonicalStreams
    /\ fn_text = ""
    /\ fn_out = None

\* the generator is started: message_start
StartStream ==
    /\ fn_pc = "given"
    /\ fn_pc' = "running"
    /\ client' = <<MessageStart>>
    /\ fn_out' = Locals("running", 0, 0, "", FALSE)
    /\ UNCHANGED <<fn_in, fn_text, upstream_tokens, upstream_text, upstream_pos, detector,
                   proxy_pc, stream_aborted, last_ret, fault, mapvars, reqvars, cfgvars, lockvars>>

\* json.dumps of a content_block_start whose 'input' is written {{}}: a set
\* that holds a dict, which raises TypeError
ToolUseStartRaises == TRUE

\* the events of one chunk and the locals after it; raised when the chunk
\* ends the generator with an exception
OnChunk(chunk, l) ==
    IF chunk.enc = "str"
    THEN [events |-> <<>>, raised |-> TRUE, l |-> l]
    ELSE IF chunk.kind = "done"
    THEN [events |-> (IF l.current_block_type # ""
                      THEN <<BlockStop(l.current_block_index)>> ELSE <<>>)
                     \o <<MessageDelta(IF l.current_block_type = "tool_use"
                                       THEN "tool_use" ELSE "end_turn"),
                          MessageStop>>,
          raised |-> FALSE, l |-> [l EXCEPT !.pc = "done"]]
    ELSE IF chunk.kind = "content"
    THEN IF chunk.content = "" THEN [events |-> <<>>, raised |-> FALSE, l |-> l]
         ELSE IF l.current_block_type # "text"
         THEN LET index == IF l.current_block_type # "" THEN l.current_block_index + 1
                           ELSE l.current_block_index
              IN  [events |-> (IF l.current_block_type # ""
                               THEN <<BlockStop(l.current_block_index)>> ELSE <<>>)
                              \o <<BlockStart(index, "text"),
                                   BlockDelta(index, "text_delta", chunk.content)>>,
                   raised |-> FALSE,
                   l |-> [l EXCEPT !.current_block_index = index,
                                   !.current_block_type = "text"]]
         ELSE [events |-> <<BlockDelta(l.current_block_index, "text_delta", chunk.content)>>,
               raised |-> FALSE, l |-> l]
    ELSE IF chunk.kind = "tool_calls"
    THEN IF ~l.tool_call_started \/ l.current_block_type # "tool_use"
         THEN LET closes == l.current_block_type \notin {"", "tool_use"}
                  index == IF closes THEN l.current_block_index + 1
                           ELSE l.current_block_index
                  l2 == [l EXCEPT !.current_block_index = index,
                                  !.current_block_type = "tool_use",
                                  !.tool_call_started = TRUE]
              IN  IF ToolUseStartRaises
                  THEN [events |-> IF closes THEN <<BlockStop(l.current_block_index)>>
                                   ELSE <<>>,
                        raised |-> TRUE, l |-> l2]
                  ELSE [events |-> (IF closes THEN <<BlockStop(l.current_block_index)>>
                                    ELSE <<>>)
                                   \o <<BlockStart(index, "tool_use"),
                                        BlockDelta(index, "input_json_delta", "{}")>>,
                        raised |-> FALSE, l |-> l2]
         ELSE [events |-> <<BlockDelta(l.current_block_index, "input_json_delta", "{}")>>,
               raised |-> FALSE, l |-> l]
    ELSE [events |-> <<>>, raised |-> FALSE, l |-> l]

\* async for chunk in openai_stream_generator: one chunk
TranslateChunk ==
    /\ fn_pc = "running"
    /\ fn_out.pos < Len(fn_in)
    /\ \E r \in {OnChunk(fn_in[fn_out.pos + 1], fn_out)} :
         /\ client' = client \o r.events \o (IF r.raised THEN <<ErrorEvent>> ELSE <<>>)
         /\ fn_out' = [r.l EXCEPT !.pos = @ + 1,
                                  !.pc = IF r.raised THEN "raised" ELSE @]
         /\ fn_pc' = IF r.raised THEN "raised" ELSE r.l.pc
    /\ UNCHANGED <<fn_in, fn_text, upstream_tokens, upstream_text, upstream_pos, detector,
                   proxy_pc, stream_aborted, last_ret, fault, mapvars, reqvars, cfgvars, lockvars>>

\* the stream has no more chunks
StreamExhausted ==
    /\ fn_pc = "running"
    /\ fn_out.pos = Len(fn_in)
    /\ fn_pc' = "exhausted"
    /\ UNCHANGED <<fn_in, fn_text, fn_out, streamvars, mapvars, reqvars, cfgvars, lockvars>>

AnthropicStreamNext == StartStream \/ TranslateChunk \/ StreamExhausted

SpecAnthropicStream == AnthropicStreamInit /\ [][AnthropicStreamNext]_vars

(***************************************************************************)
(* C27. Anthropic stream protocol: for every canonical stream, the         *)
(* translated event sequence starts with message_start; every              *)
(* content_block_start at index k is followed by content_block_delta       *)
(* events only for index k and then by a content_block_stop for k before   *)
(* any block k+1 is started, with indices increasing by one from 0; and    *)
(* the sequence is closed by exactly one message_delta carrying            *)
(* stop_reason immediately followed by exactly one message_stop as the     *)
(* last event.                                                             *)
(***************************************************************************)
EventsOf(name) == {i \in DOMAIN client : client[i].event = name}

StreamOver == fn_pc \in {"done", "raised", "exhausted"}

\* the stream ends with its [DONE] chunk
Terminated == fn_in # <<>> /\ fn_in[Len(fn_in)].kind = "done"

\* the blocks are opened at 0, 1, ... and each is closed before the next
BlocksInTurn ==
    \A i \in EventsOf("content_block_start") :
        LET k == client[i].index
            stop == {j \in EventsOf("content_block_stop") : j > i /\ client[j].index = k}
        IN  /\ k = Cardinality({j \in EventsOf("content_block_start") : j < i})
            /\ stop # {}
            /\ \A j \in DOMAIN client :
                   (i < j /\ \A s \in stop : j < s) =>
                       client[j].event = "content_block_delta" /\ client[j].index = k

ClosedByStop ==
    /\ Len(client) >= 3
    /\ client[Len(client) - 1].event = "message_delta"
    /\ client[Len(client) - 1].value \in {"end_turn", "tool_use", "max_tokens"}
    /\ client[Len(client)] = MessageStop
    /\ Cardinality(EventsOf("message_delta")) = 1
    /\ Cardinality(EventsOf("message_stop")) = 1

C27_AnthropicStreamProtocol ==
    (StreamOver /\ Terminated) => (client[1] = MessageStart /\ BlocksInTurn /\ ClosedByStop)

\* What holds: a stream of bytes chunks without a tool call that ends with
\* [DONE] is translated as claimed.
TextStreamProtocol ==
    (fn_pc = "done" /\ \A i \in DOMAIN fn_in : fn_in[i].kind \in {"content", "done"})
        => (client[1] = MessageStart /\ BlocksInTurn /\ ClosedByStop)

\* A text block was open when the tool call came as bytes: the stream is
\* over with the error event last and neither message_delta nor
\* message_stop.
ToolCallEndsInError ==
    /\ fn_pc = "raised"
    /\ fn_in = <<DeltaChunk("Hi ")>> \o Encoded(ToolCallStream)
    /\ client = <<MessageStart, BlockStart(0, "text"), BlockDelta(0, "text_delta", "Hi "),
                  BlockStop(0), ErrorEvent>>

(***************************************************************************)
(* C28. Chunk-boundary independence of the detector: for any text and any  *)
(* split of it into deltas, process_chunk reports detection at the same    *)
(* sentinel occurrence (or never) and the concatenation of all             *)
(* pass-through text plus the end-of-stream flush is the same as when the  *)
(* text arrives as one delta; a sentinel or a </think> tag that straddles  *)
(* two or more deltas is neither missed nor partially forwarded.           *)
(***************************************************************************)
\* the reply taken as one delta
AsOneDelta == process_chunk(NewDetector, upstream_text)

PassedThrough == JoinContent(client, {"passthrough"})

\* all of the reply has been through process_chunk
AllReceived == upstream_pos = Len(upstream_text)

C28_ChunkBoundaryIndependence ==
    \E one \in {AsOneDelta} :
        /\ detector.state = "tool_parsing" =>
               /\ one.detected
               /\ PassedThrough = one.out
        /\ detector.state = "detecting" =>
               /\ ~HasChunk("finalflush") =>
                      PassedThrough \o detector.content_buffer
                          = Slice(upstream_text, 0, upstream_pos)
               /\ Len(PassedThrough) <= Len(one.out)
               /\ AllReceived =>
                      /\ ~one.detected
                      /\ detector.think_depth = one.d.think_depth
                      /\ detector.in_think_block = one.d.in_think_block
               /\ proxy_pc = "returned" => Forwarded = one.out \o one.d.content_buffer

\* A delta has ended inside the signal that will be detected: what came of
\* the signal is held back, the text before it has been passed through.
C28_Witness ==
    /\ upstream_tokens = <<TokPlain, trigger_signal, TokCalls>>
    /\ detector.state = "detecting"
    /\ upstream_pos > Len(TokPlain) + 1
    /\ upstream_pos < Len(TokPlain) + signal_len
    /\ PassedThrough = TokPlain
    /\ detector.content_buffer = Slice(trigger_signal, 0, upstream_pos - Len(TokPlain))
    /\ AsOneDelta.detected
    /\ AsOneDelta.out = TokPlain

(***************************************************************************)
(* C29. Detection is absorbing: once process_chunk has reported the        *)
(* detection, the detector stays in the tool_parsing state for the rest of *)
(* the stream, every later delta is only appended to the buffer, and no    *)
(* further text of the upstream is passed through to the client.           *)
(***************************************************************************)
\* the text of the upstream that the step has received
Received == Slice(upstream_text, upstream_pos, upstream_pos')

C29_DetectionAbsorbing ==
    [][detector.state = "tool_parsing" =>
          /\ detector'.state = "tool_parsing"
          /\ detector'.content_buffer = detector.content_buffer \o Received
          /\ JoinContent(client', {"passthrough", "finalflush"})
                 = JoinContent(client, {"passthrough", "finalflush"})
          /\ detector'.think_depth = detector.think_depth]_vars

\* After the detection a text and the block have come in later deltas: they
\* are in the buffer, the client has the tool-call events and nothing of
\* what followed the signal.
C29_Witness ==
    /\ upstream_tokens = <<trigger_signal, TokPlain, TokCalls>>
    /\ proxy_pc = "returned"
    /\ last_ret = [detected |-> TRUE]
    /\ detector.state = "tool_parsing"
    /\ detector.content_buffer = trigger_signal \o TokPlain \o TokCalls
    /\ Forwarded = ""
    /\ ToolEvents # <<>>

(***************************************************************************)
(* C30. End-of-stream finalize: when the upstream's stream ends while the  *)
(* detector is in the tool_parsing state and no early finalize has         *)
(* happened (the signal and the complete function_calls block came in one  *)
(* delta, say), the parser is run once on the buffer and, when it          *)
(* succeeds, the client receives the same two tool-call events followed by *)
(* [DONE] as after an early finalize.                                      *)
(***************************************************************************)
\* the step that ends the stream with the calls of the buffer parsed, no
\* delta with text having come with it
FinalizingAtEnd ==
    /\ proxy_pc = "streaming"
    /\ proxy_pc' = "returned"
    /\ detector.state = "tool_parsing"
    /\ detector' = detector
    /\ AllReceived
    /\ finalize(detector) # <<>>

KindsOf(chunks) == [i \in DOMAIN chunks |-> chunks[i].kind]

C30_EndOfStreamFinalize ==
    [][FinalizingAtEnd =>
          /\ Len(client') = Len(client) + 3
          /\ KindsOf(SubSeq(client', Len(client) + 1, Len(client'))) =
                 <<"tool_calls", "finish", "done">>]_vars

\* The signal and the block came in one delta and the stream ended: the
\* calls were parsed and stored, and the client has none of the three
\* chunks, the response having ended on the first of them.
EndFinalizeLost ==
    /\ upstream_tokens = <<trigger_signal, TokCalls>>
    /\ proxy_pc = "returned"
    /\ detector.content_buffer = trigger_signal \o TokCalls
    /\ finalize(detector) # <<>>
    /\ map_op.op = "store"
    /\ stream_aborted
    /\ client = <<>>

\* The same stream on /v1/messages: the first str chunk ends it with the
\* error event.
EndFinalizeLostOnMessages ==
    /\ fn_pc = "raised"
    /\ fn_in = ToolCallStream
    /\ client = <<MessageStart, ErrorEvent>>

(***************************************************************************)
(* remove_think_blocks step by step: the test of the outer while, one turn *)
(* of the inner while, and what follows the inner while.  fn_text is the   *)
(* local text, fn_out the locals [start_pos, pos, depth].                  *)
(***************************************************************************)
MaxThinkTokens == 4

ThinkTokens == {ThinkOpen, ThinkClose, "ab"}

ThinkInit ==
    /\ MapIdle /\ StreamIdle /\ ReqIdle /\ CfgIdle /\ LockIdle
    /\ fn_pc = "while"
    /\ fn_in \in UNION {[1..k -> ThinkTokens] : k \in 1..MaxThinkTokens}
    /\ fn_text = Concat(fn_in)
    /\ fn_out = [start_pos |-> 0, pos |-> 0, depth |-> 0]

\* while '<think>' in text and '</think>' in text: start_pos, pos, depth
WhileTest ==
    /\ fn_pc = "while"
    /\ IF Contains(fn_text, ThinkOpen) /\ Contains(fn_text, ThinkClose)
       THEN /\ fn_pc' = "scan"
            /\ \E start_pos \in {Find(fn_text, ThinkOpen, 0)} :
                   fn_out' = [start_pos |-> start_pos, pos |-> start_pos + 7, depth |-> 1]
       ELSE /\ fn_pc' = "returned"
            /\ UNCHANGED fn_out
    /\ UNCHANGED <<fn_in, fn_text, mapvars, streamvars, reqvars, cfgvars, lockvars>>

\* one turn of: while pos < len(text) and depth > 0
ScanStep ==
    /\ fn_pc = "scan"
    /\ fn_out.pos < Len(fn_text) /\ fn_out.depth > 0
    /\ fn_out' =
           IF Slice(fn_text, fn_out.pos, fn_out.pos + 7) = ThinkOpen
           THEN [fn_out EXCEPT !.depth = @ + 1, !.pos = @ + 7]
           ELSE IF Slice(fn_text, fn_out.pos, fn_out.pos + 8) = ThinkClose
           THEN [fn_out EXCEPT !.depth = @ - 1, !.pos = @ + 8]
           ELSE [fn_out EXCEPT !.pos = @ + 1]
    /\ UNCHANGED <<fn_pc, fn_in, fn_text, mapvars, streamvars, reqvars, cfgvars, lockvars>>

\* (the span is found closed and the text is returned uncut)
ScanEndNoCut ==
    /\ fn_pc = "scan"
    /\ ~(fn_out.pos < Len(fn_text) /\ fn_out.depth > 0)
    /\ fn_pc' = "returned"
    /\ UNCHANGED <<fn_out, fn_in, fn_text, mapvars, streamvars, reqvars, cfgvars, lockvars>>

\* after the inner while: cut the span and test again, or break
ScanEnd ==
    /\ fn_pc = "scan"
    /\ ~(fn_out.pos < Len(fn_text) /\ fn_out.depth > 0)
    /\ IF fn_out.depth = 0
       THEN /\ fn_text' = Slice(fn_text, 0, fn_out.start_pos) \o From(fn_text, fn_out.pos)
            /\ fn_pc' = "while"
       ELSE /\ fn_pc' = "returned"
            /\ UNCHANGED fn_text
    /\ UNCHANGED <<fn_out, fn_in, mapvars, streamvars, reqvars, cfgvars, lockvars>>

ThinkNext == WhileTest \/ ScanStep \/ ScanEnd

SpecThink == ThinkInit /\ [][ThinkNext]_vars

\* the function runs on its own, one step after the other, until it returns
SpecThinkFair == SpecThink /\ WF_vars(ThinkNext)

\* the operator used by the parser is what the loops compute
RemoveThinkBlocksAsStepped ==
    fn_pc = "returned" => fn_text = remove_think_blocks(Concat(fn_in))

\* the think tag at k is matched: an opening tag closed later on, or a
\* closing tag met at a depth above 0
Matched(ts, k) ==
    \/ /\ ts[k] = ThinkOpen
       /\ \E j \in (k + 1)..Len(ts) : DepthAfter(ts, j) < DepthAfter(ts, k)
    \/ /\ ts[k] = ThinkClose
       /\ DepthAfter(ts, k - 1) > 0

\* the pieces outside every balanced span
OutsideSpans(ts) ==
    LET keep == {k \in DOMAIN ts : ~Matched(ts, k) /\ ~InBalancedThink(ts, k)}
    IN  Pieces(ts, 1, DOMAIN ts \ keep)

Returned == fn_pc = "returned"

(***************************************************************************)
(* C32, as claimed: the function returns, and the text returned is the     *)
(* text without every balanced think span, nested ones included.           *)
(***************************************************************************)
C32_EverySpanRemoved ==
    Returned => fn_text = OutsideSpans(fn_in)

(***************************************************************************)
(* C32, amended.  remove_think_blocks returns on every text.  It cuts out, *)
(* one after the other, the span from the first <think> of the text to the *)
(* </think> that matches it (spans nested in it go with it); at the first  *)
(* <think> that is never closed it stops, and the text from that tag on is *)
(* returned as it is, balanced spans inside it included.  A text without   *)
(* an unclosed <think> is returned without any balanced span.              *)
(***************************************************************************)
NoUnclosed(ts) ==
    \A k \in DOMAIN ts : ts[k] = ThinkOpen => Matched(ts, k)

C32_RemoveThinkBlocks ==
    /\ <>Returned
    /\ [](Returned =>
            /\ fn_text = Concat(WithoutThink(fn_in))
            /\ NoUnclosed(fn_in) => fn_text = OutsideSpans(fn_in)
            /\ \A k \in DOMAIN fn_in :
                   (fn_in[k] = ThinkOpen /\ ~Matched(fn_in, k)) =>
                       \E n \in {Len(Concat(SubSeq(fn_in, k, Len(fn_in))))} :
                           Slice(fn_text, Len(fn_text) - n, Len(fn_text))
                               = Concat(SubSeq(fn_in, k, Len(fn_in))))

\* a nested span is cut and the text from an unclosed tag on is kept
C32_Witness ==
    /\ Returned
    /\ fn_in = <<ThinkOpen, ThinkClose, ThinkOpen, "ab">>
    /\ fn_text = "<think>ab"

\* a balanced span after an unclosed tag is kept
SpanAfterUnclosedKept ==
    /\ Returned
    /\ fn_in = <<ThinkOpen, ThinkOpen, "ab", ThinkClose>>
    /\ fn_text = Concat(fn_in)

(***************************************************************************)
(* The map under its lock, statement by statement.  The request threads    *)
(* call store and get, the cleanup thread sleeps, calls cleanup_expired    *)
(* and get_stats, and sleeps again.  Every method body runs inside         *)
(* "with self._lock"; a step is one statement that changes _data or        *)
(* _timestamps.                                                            *)
(***************************************************************************)
\* (a lock that never makes a thread wait)
Unguarded(th) == TRUE

\* RLock.acquire does not block: the lock is free or the thread's own
CanAcquire(th) == lock.owner \in {"none", th}

Acquire(th) == lock' = [owner |-> th, count |-> lock.count + 1]

\* the end of a with block, by return or by an exception
Release(th) ==
    lock' = IF lock.count <= 1 THEN [owner |-> "none", count |-> 0]
            ELSE [lock EXCEPT !.count = @ - 1]

Enter(th, op, id) ==
    /\ CanAcquire(th)
    /\ Acquire(th)
    /\ thread' = [thread EXCEPT ![th] =
                      [pc |-> op, op |-> op, id |-> id, current_time |-> now,
                       keys |-> {}, raised |-> FALSE,
                       h |-> [data |-> data, timestamps |-> timestamps]]]

Goto(th, pc) == thread' = [thread EXCEPT ![th].pc = pc]

DelTimestamp(id) == timestamps' = Restrict(timestamps, DOMAIN timestamps \ {id})

RecOf(id, t) ==
    [name |-> NameOf(id), args |-> NoArgs,
     description |-> "Calling tool " \o NameOf(id), created_at |-> t]

\* store(tool_call_id, ...): with self._lock, current_time = time.time()
CallStore(th, id) ==
    /\ thread[th].pc = "idle"
    /\ Enter(th, "store", id)
    /\ UNCHANGED <<mapvars, streamvars, reqvars, fnvars, cfgvars>>

\* the statements of store
StoreStep(th) ==
    /\ lock.owner = th
    /\ \E l \in {thread[th]} :
        \/ /\ l.pc = "store"
           /\ IF l.id \in Keys(data)
              THEN data' = Without(data, l.id) /\ Goto(th, "store_del")
              ELSE UNCHANGED data /\ Goto(th, "evict")
           /\ UNCHANGED timestamps
        \/ /\ l.pc = "store_del"
           /\ DelTimestamp(l.id)
           /\ Goto(th, "evict")
           /\ UNCHANGED data
        \/ /\ l.pc = "evict"
           /\ IF Len(data) >= MaxSize
              THEN /\ data' = Tail(data)
                   /\ thread' = [thread EXCEPT ![th].pc = "evict_del",
                                               ![th].keys = {Head(data).id}]
              ELSE /\ data' = Append(data, [id |-> l.id, rec |-> RecOf(l.id, l.current_time)])
                   /\ Goto(th, "stamp")
           /\ UNCHANGED timestamps
        \/ /\ l.pc = "evict_del"
           /\ \E oldest_key \in l.keys : DelTimestamp(oldest_key)
           /\ Goto(th, "evict")
           /\ UNCHANGED data
        \/ /\ l.pc = "stamp"
           /\ timestamps' = [k \in DOMAIN timestamps \cup {l.id} |->
                                IF k = l.id THEN l.current_time ELSE timestamps[k]]
           /\ Goto(th, "exit")
           /\ UNCHANGED data
    /\ UNCHANGED <<lock, now, map_op, h_store, h_evicted, h_touch, h_expiry,
                   streamvars, reqvars, fnvars, cfgvars>>

\* get(tool_call_id): with self._lock, current_time = time.time()
CallGet(th, id) ==
    /\ thread[th].pc = "idle"
    /\ Enter(th, "get", id)
    /\ UNCHANGED <<mapvars, streamvars, reqvars, fnvars, cfgvars>>

\* the statements of get
GetStep(th) ==
    /\ lock.owner = th
    /\ \E l \in {thread[th]} :
        \/ /\ l.pc = "get"
           /\ IF l.id \notin Keys(data)
              THEN UNCHANGED data /\ Goto(th, "exit")
              ELSE IF Expired(timestamps[l.id], l.current_time)
              THEN data' = Without(data, l.id) /\ Goto(th, "get_del")
              ELSE data' = GetData(data, l.id) /\ Goto(th, "exit")
           /\ UNCHANGED timestamps
        \/ /\ l.pc = "get_del"
           /\ DelTimestamp(l.id)
           /\ Goto(th, "exit")
           /\ UNCHANGED data
    /\ UNCHANGED <<lock, now, map_op, h_store, h_evicted, h_touch, h_expiry,
                   streamvars, reqvars, fnvars, cfgvars>>

\* _periodic_cleanup: time.sleep is over and cleanup_expired takes the lock
CallCleanup ==
    /\ thread["sweeper"].pc = "sleep"
    /\ Enter("sweeper", "cleanup", 0)
    /\ UNCHANGED <<mapvars, streamvars, reqvars, fnvars, cfgvars>>

\* the statements of cleanup_expired
CleanupStep ==
    /\ lock.owner = "sweeper"
    /\ \E l \in {thread["sweeper"]} :
        \/ /\ l.pc = "cleanup"
           /\ thread' = [thread EXCEPT
                  !["sweeper"].pc = "cleanup_del",
                  !["sweeper"].keys =
                      {k \in DOMAIN timestamps : Expired(timestamps[k], l.current_time)}]
           /\ UNCHANGED <<data, timestamps>>
        \/ /\ l.pc = "cleanup_del"
           /\ IF l.keys = {}
              THEN UNCHANGED data /\ Goto("sweeper", "exit")
              ELSE \E key \in l.keys :
                       /\ data' = Without(data, key)
                       /\ thread' = [thread EXCEPT !["sweeper"].pc = "cleanup_del_ts",
                                                   !["sweeper"].id = key]
           /\ UNCHANGED timestamps
        \/ /\ l.pc = "cleanup_del_ts"
           /\ DelTimestamp(l.id)
           /\ thread' = [thread EXCEPT !["sweeper"].pc = "cleanup_del",
                                       !["sweeper"].keys = l.keys \ {l.id}]
           /\ UNCHANGED data
    /\ UNCHANGED <<lock, now, map_op, h_store, h_evicted, h_touch, h_expiry,
                   streamvars, reqvars, fnvars, cfgvars>>

\* _periodic_cleanup: get_stats takes the lock
CallStats ==
    /\ thread["sweeper"].pc = "stats_call"
    /\ Enter("sweeper", "stats", 0)
    /\ UNCHANGED <<mapvars, streamvars, reqvars, fnvars, cfgvars>>

\* the with block of a method ends and the method returns
Return(th) ==
    /\ lock.owner = th
    /\ thread[th].pc \in {"exit", "stats"}
    /\ Release(th)
    /\ thread' = [thread EXCEPT ![th] =
                      [IdleThread(th) EXCEPT
                          !.pc = IF th # "sweeper" THEN "idle"
                                 ELSE IF thread[th].op = "cleanup" THEN "stats_call"
                                 ELSE "sleep"]]
    /\ UNCHANGED <<mapvars, streamvars, reqvars, fnvars, cfgvars>>

\* (an exception that leaves the lock with the sweeper)
RaiseHolding ==
    /\ lock.owner = "sweeper"
    /\ thread["sweeper"].pc \in {"cleanup", "stats"}
    /\ thread' = [thread EXCEPT !["sweeper"] =
                      [IdleThread("sweeper") EXCEPT !.raised = TRUE]]
    /\ UNCHANGED <<lock, mapvars, streamvars, reqvars, fnvars, cfgvars>>

\* an exception in cleanup_expired or get_stats before any entry is deleted:
\* the with block releases the lock, except Exception logs, the loop goes on
Raise ==
    /\ lock.owner = "sweeper"
    /\ thread["sweeper"].pc \in {"cleanup", "stats"}
    /\ Release("sweeper")
    /\ thread' = [thread EXCEPT !["sweeper"] =
                      [IdleThread("sweeper") EXCEPT !.raised = TRUE]]
    /\ UNCHANGED <<mapvars, streamvars, reqvars, fnvars, cfgvars>>

LockInit == LockIdle /\ MapIdle /\ StreamIdle /\ ReqIdle /\ FnIdle /\ CfgIdle

HandlerNext(th) ==
    \/ \E id \in Ids : CallStore(th, id)
    \/ StoreStep(th)
    \/ \E id \in Ids : CallGet(th, id)
    \/ GetStep(th)
    \/ Return(th)

SweeperNext == CallCleanup \/ CleanupStep \/ CallStats \/ Return("sweeper") \/ Raise

LockNext == (\E th \in Handlers : HandlerNext(th)) \/ SweeperNext \/ Clock

SpecLock == LockInit /\ [][LockNext]_vars

\* a thread is inside a method of the map
InCall(th) == thread[th].pc \notin {"idle", "sleep", "stats_call"}

\* the two maps agree and the size limit holds
Consistent ==
    /\ Keys(data) = DOMAIN timestamps
    /\ Cardinality(Keys(data)) = Len(data)
    /\ Len(data) <= MaxSize

\* what the method that thread th is about to leave has done to the map it
\* found is what the method does in one step
AtomicEffect(th) ==
    \E l \in {thread[th]} : \E h \in {l.h} :
        IF l.op = "store"
        THEN /\ data = StoreData(h.data, l.id, RecOf(l.id, l.current_time))
             /\ timestamps = [k \in Keys(data) |->
                                 IF k = l.id THEN l.current_time ELSE h.timestamps[k]]
        ELSE IF l.op = "get"
        THEN IF l.id \notin Keys(h.data)
             THEN data = h.data /\ timestamps = h.timestamps
             ELSE IF Expired(h.timestamps[l.id], l.current_time)
             THEN /\ data = Without(h.data, l.id)
                  /\ timestamps = Restrict(h.timestamps, Keys(h.data) \ {l.id})
             ELSE data = GetData(h.data, l.id) /\ timestamps = h.timestamps
        ELSE \E gone \in {{k \in Keys(h.data) : Expired(h.timestamps[k], l.current_time)}} :
                /\ data = SelectSeq(h.data, LAMBDA e : e.id \notin gone)
                /\ timestamps = Restrict(h.timestamps, Keys(h.data) \ gone)

(***************************************************************************)
(* C34. ID map atomicity: whatever the interleaving of the store and get   *)
(* calls of the request threads and the cleanup_expired calls of the       *)
(* sweeper, no two threads are inside a method at once, the method a       *)
(* thread leaves has had the effect of the whole method on the map it      *)
(* found, and in every state in which a thread outside the methods could   *)
(* take the lock, the ordered map and the timestamp map have the same keys *)
(* and the map holds at most max_size entries.                             *)
(***************************************************************************)
C34_MapAtomicity ==
    /\ \A a, b \in Threads : (a # b /\ InCall(a)) => ~InCall(b)
    /\ \A th \in Threads :
          /\ (~InCall(th) /\ CanAcquire(th)) => Consistent
          /\ (thread[th].pc = "exit") => AtomicEffect(th)
          /\ InCall(th) => lock.owner = th

\* a store that evicts is half done (the two maps differ) while the other
\* request thread and the sweeper, between its two calls, are kept out
C34_Witness ==
    /\ thread["h1"].pc = "evict_del"
    /\ thread["h1"].h.data # <<>>
    /\ Keys(data) # DOMAIN timestamps
    /\ thread["h2"].pc = "idle"
    /\ thread["sweeper"].pc = "stats_call"
    /\ ~CanAcquire("h2") /\ ~CanAcquire("sweeper")

\* a store, a get that finds its entry expired and a sweep that deletes have
\* each come to their end
C34_WitnessSweep ==
    /\ thread["sweeper"].pc = "exit"
    /\ Len(thread["sweeper"].h.data) = MaxSize
    /\ data = <<>>

\* A thread inside a method goes on to its end; the sweeper's sleep ends and
\* a sweeper that waits for the lock gets it when it is free again and again.
SpecLockFair ==
    /\ SpecLock
    /\ \A th \in Handlers : WF_vars(StoreStep(th) \/ GetStep(th) \/ Return(th))
    /\ WF_vars(CleanupStep \/ Return("sweeper"))
    /\ SF_vars(CallCleanup \/ CallStats)

Sleeping == thread["sweeper"].pc = "sleep"
Sweeping == thread["sweeper"].pc = "cleanup"

(***************************************************************************)
(* C35. The sweeper does not hold the lock of the map while it sleeps: it  *)
(* holds it only inside a cleanup_expired or a get_stats call, so that     *)
(* while it sleeps a request thread is kept from store and get by another  *)
(* request thread only; and after a sweep that raised an exception the     *)
(* sweeper comes to sweep again.                                           *)
(***************************************************************************)
C35_SweeperLock ==
    /\ [](Sleeping => lock.owner # "sweeper")
    /\ [](lock.owner = "sweeper" =>
              /\ InCall("sweeper")
              /\ thread["sweeper"].op \in {"cleanup", "stats"})
    /\ [](Sleeping => \A th \in Handlers :
              thread[th].pc = "idle" => (CanAcquire(th) \/ lock.owner \in Handlers))
    /\ (thread["sweeper"].raised ~> Sweeping)

\* the sweeper sleeps after a sweep that raised, the lock is free and a
\* request thread has taken it for a store
C35_Witness ==
    /\ Sleeping
    /\ thread["sweeper"].raised
    /\ lock.owner = "h1"
    /\ thread["h1"].op = "store"
    /\ data # <<>>

(***************************************************************************)
(* The streaming path against the unary parser on the same text.           *)
(***************************************************************************)
\* the names and args of a tool_calls chunk, in its order
CallsOf(tool_calls) ==
    [i \in DOMAIN tool_calls |->
        [name |-> tool_calls[i].name, args |-> tool_calls[i].arguments]]

\* the calls the client has of the stream; <<>> when it has none
StreamedCalls ==
    IF \E i \in DOMAIN client : client[i].kind = "tool_calls"
    THEN CallsOf(client[CHOOSE i \in DOMAIN client : client[i].kind = "tool_calls"].tool_calls)
    ELSE <<>>

\* parse_function_calls_xml on the whole text; <<>> for None
UnaryCalls == parse_function_calls_xml(upstream_text, trigger_signal)

(***************************************************************************)
(* C38. Streaming and unary paths agree: for any complete assistant text   *)
(* delivered as any sequence of deltas, the tool calls the streaming path  *)
(* emits (detector, then early or end-of-stream finalize) equal the result *)
(* of parse_function_calls_xml on the whole text: both absent, or the same *)
(* ordered list of names and args, however the text was split into deltas. *)
(***************************************************************************)
C38_StreamingUnaryAgree ==
    proxy_pc = "returned" => StreamedCalls = UnaryCalls

\* The same, leaving out the streams that ended on a str chunk of the
\* end-of-stream finalize.
AgreeWhenDelivered ==
    (proxy_pc = "returned" /\ ~stream_aborted) => StreamedCalls = UnaryCalls

\* A second signal follows the block.  The block ended a delta, the early
\* finalize parsed the buffer up to it and the client has its two calls;
\* the parser finds no block after the last signal of the whole text.
StreamedWhereUnaryAbsent ==
    /\ upstream_tokens = <<trigger_signal, TokCalls, trigger_signal>>
    /\ proxy_pc = "returned"
    /\ ~stream_aborted
    /\ Len(StreamedCalls) = 2
    /\ UnaryCalls = <<>>

\* The same text in one delta: the buffer holds the second signal when it is
\* parsed, and the client has the error text and no call.
SameTextOtherSplit ==
    /\ upstream_tokens = <<trigger_signal, TokCalls, trigger_signal>>
    /\ proxy_pc = "returned"
    /\ detector.content_buffer = upstream_text
    /\ StreamedCalls = <<>>
    /\ HasChunk("error-chunk")

\* The signal and the block in the last delta of the stream: the parser has
\* two calls of the text and the client has none.
UnaryWhereStreamedLost ==
    /\ upstream_tokens = <<trigger_signal, TokCalls>>
    /\ proxy_pc = "returned"
    /\ stream_aborted
    /\ Len(UnaryCalls) = 2
    /\ StreamedCalls = <<>>

(***************************************************************************)
(* C40. Anthropic streaming of tool calls: for a canonical stream whose    *)
(* delta carries n >= 1 tool calls (as the tool-call path synthesizes it,  *)
(* after text or not), the Anthropic stream contains exactly n tool_use    *)
(* content blocks, one content_block_start per call carrying that call's   *)
(* id and name and receiving only that call's arguments as                 *)
(* input_json_delta, any open text block is closed before the first        *)
(* tool_use block starts, and the final message_delta carries stop_reason  *)
(* tool_use.  An event of the model carries no id or name; the formula     *)
(* states the number of the blocks, one input_json_delta in each, the      *)
(* closing of the text block and the stop_reason, which the claim implies. *)
(***************************************************************************)
\* the stream carries a tool_calls chunk, every chunk as bytes
CarriesToolCalls ==
    /\ \E i \in DOMAIN fn_in : fn_in[i].kind = "tool_calls"
    /\ \A i \in DOMAIN fn_in : fn_in[i].enc = "bytes"

\* the calls of the stream's tool_calls chunks, in order
NumToolCalls ==
    Len(Flatten([i \in DOMAIN fn_in |->
                    IF fn_in[i].kind = "tool_calls" THEN fn_in[i].tool_calls ELSE <<>>]))

ToolUseStarts ==
    {i \in EventsOf("content_block_start") : client[i].type = "tool_use"}

\* every block opened before i is closed before i
ClosedBefore(i) ==
    \A s \in EventsOf("content_block_start") :
        s < i => \E j \in EventsOf("content_block_stop") :
                     s < j /\ j < i /\ client[j].index = client[s].index

C40_AnthropicToolUseBlocks ==
    (StreamOver /\ CarriesToolCalls) =>
        /\ Cardinality(ToolUseStarts) = NumToolCalls
        /\ \A i \in ToolUseStarts :
               /\ ClosedBefore(i)
               /\ Cardinality({j \in EventsOf("content_block_delta") :
                                   /\ client[j].index = client[i].index
                                   /\ client[j].type = "input_json_delta"}) = 1
        /\ Cardinality(EventsOf("message_delta")) = 1
        /\ \A j \in EventsOf("message_delta") : client[j].value = "tool_use"

\* The tool call came first in the stream: the client has message_start and
\* the error event, no tool_use block and no message_delta.
ToolUseBlockMissing ==
    /\ fn_pc = "raised"
    /\ fn_in = Encoded(ToolCallStream)
    /\ client = <<MessageStart, ErrorEvent>>
    /\ ToolUseStarts = {}

====
